---- MODULE Spec2Model ----
(***************************************************************************)
(* Plugin host of peteski22/plugins-demo: the pipeline that runs the       *)
(* registered plugins of each category over a request or a response, the   *)
(* gRPC adapter's payload type checks, and the HTTP middleware around the  *)
(* pipeline.                                                               *)
(***************************************************************************)
EXTENDS Integers, Sequences, FiniteSets, TLC

\* Number of Register calls made before the pipeline serves.
MaxPlugins == 2

----------------------------------------------------------------------------
\* pkg/contract/plugin: flows, execution modes, categories

FlowRequest == 0
FlowResponse == 1
\* A Flow value (Flow is an int) that is neither FlowRequest nor FlowResponse.
FlowOther == FlowResponse + 1
Flows == {FlowRequest, FlowResponse, FlowOther}

ExecSerial == 0
ExecParallel == 1

CategoryAuthN == "authentication"
CategoryAuthZ == "authorization"
CategoryRateLimiting == "rate-limiting"
CategoryValidation == "validation"
CategoryContent == "content"
CategoryObservability == "observability"
\* A Category value (Category is a string) outside the six declared ones.
CategoryOther == "custom"

CategoryProperties(mode, canReject, canModify) ==
    [Mode |-> mode, CanReject |-> canReject, CanModify |-> canModify]

\* The Capabilities a gRPC adapter can cache: non-empty sets of the two flows.
CapabilitySets == {{FlowRequest}, {FlowResponse}, {FlowRequest, FlowResponse}}

PluginInstance(caps, required) == [capabilities |-> caps, required |-> required]

PluginInstances == {PluginInstance(c, r) : c \in CapabilitySets, r \in BOOLEAN}

----------------------------------------------------------------------------
\* Wire payloads and errors

Nil == [type |-> "nil"]

\* An *pb.HTTPRequest; id tells the objects apart (0 is the one the middleware
\* converted from the incoming request, n > 0 the one returned by call n).
HTTPRequest(id) == [type |-> "HTTPRequest", id |-> id]

HTTPResponse(status, headers, body, continue, modified) ==
    [type |-> "HTTPResponse", StatusCode |-> status, Headers |-> headers,
     Body |-> body, Continue |-> continue, ModifiedRequest |-> modified]

NoErr == [kind |-> "nil"]
ErrInvalidRequestType == [kind |-> "ErrInvalidRequestType"]
ErrInvalidResponseType == [kind |-> "ErrInvalidResponseType"]
ErrRequiredPluginFailed == [kind |-> "ErrRequiredPluginFailed"]
\* The error the plugin at position k of category cat answers a call with.
PluginError(cat, k) == [kind |-> "plugin", cat |-> cat, k |-> k]
ErrUnknownFlow(f) == [kind |-> "unknown flow", flow |-> f]
ErrParallelModify(cat) == [kind |-> "parallel execution and request mutation", cat |-> cat]
ErrUnsupportedMode(cat) == [kind |-> "unsupported execution mode", cat |-> cat]

\* fmt.Errorf("%w: %w", a, b) and errors.Join(errs...): an error wrapping several.
Wrap(errs) == [kind |-> "wrap", errs |-> errs]
Join(errs) == [kind |-> "join", errs |-> errs]

RECURSIVE ErrorsIs(_, _)
ErrorsIs(err, target) ==
    \/ err = target
    \/ /\ err.kind \in {"wrap", "join"}
       /\ \E i \in 1..Len(err.errs) : ErrorsIs(err.errs[i], target)

----------------------------------------------------------------------------
VARIABLES
    categoryProps,  \* categories.go: category -> CategoryProperties
    plugins,        \* Pipeline.plugins: category -> sequence of plugins
    phase,          \* "setup", "run" (a direct Run), "http" (an exchange)
    pc,             \* where Run is: "idle", "serial", "parallel", "returned"
    flow,           \* Run's flow argument
    req,            \* Run's req: the current payload
    ci,             \* index into OrderedCategories of the category being run
    active,         \* the active plugins of that category (positions in its list)
    si,             \* serial mode: index into active of the next plugin
    pending,        \* parallel mode: goroutines that have not finished
    errCh,          \* parallel mode: the error channel
    ret,            \* what Run returned: [val, err]
    log,            \* the plugin calls of the current Run, in order
    logged,         \* plugin failures written to the logger by the current Run
    mw,             \* the middleware's exchange
    managed,        \* Manager.plugins: metadata name -> the running plugin (its process)
    procs,          \* the child processes spawned by Start, with their connections
    op,             \* the Manager operation in progress, and the last one's result
    ctx,            \* main's context, passed to every Start: "live" or "cancelled"
    adapter,        \* a grpcPluginAdapter on its own, and the RPCs it has issued
    mu,             \* Pipeline.mu
    registering,    \* the Register call that holds mu, or Nil
    pure,           \* applications of the pure functions, in order
    threads,        \* goroutines calling the Manager concurrently
    suspended       \* the locals of a second Run, on a goroutine that is not scheduled

runVars == <<pc, flow, req, ci, active, si, pending, errCh, ret, log, logged>>
\* What is neither the pipeline's nor the manager's.
auxVars == <<adapter, mu, registering, pure, threads, suspended>>
mgrVars == <<managed, procs, op, ctx>>
vars == <<categoryProps, plugins, phase, pc, flow, req, ci, active, si, pending,
          errCh, ret, log, logged, mw, managed, procs, op, ctx, adapter, mu,
          registering, pure, threads, suspended>>

----------------------------------------------------------------------------
\* internal/plugins/pipeline/categories.go

CategoryPropsTable ==
    [c \in {CategoryAuthN, CategoryAuthZ, CategoryRateLimiting, CategoryValidation,
            CategoryContent, CategoryObservability} |->
        CASE c = CategoryContent -> CategoryProperties(ExecSerial, TRUE, TRUE)
          [] c = CategoryObservability -> CategoryProperties(ExecParallel, FALSE, FALSE)
          [] OTHER -> CategoryProperties(ExecSerial, TRUE, FALSE)]

\* OrderedCategories with content moved ahead of validation.
OrderedCategoriesContentEarly ==
    <<"observability", "authentication", "authorization", "rate-limiting",
      "content", "validation">>

\* OrderedCategories with the category outside the six at its end.
OrderedCategoriesAndOther ==
    <<"observability", "authentication", "authorization", "rate-limiting",
      "validation", "content", "custom">>

OrderedCategories ==
    <<CategoryObservability, CategoryAuthN, CategoryAuthZ, CategoryRateLimiting,
      CategoryValidation, CategoryContent>>

\* PropsForCategory letting unknown categories reject.
PropsForCategoryRejecting(c) ==
    IF c \in DOMAIN categoryProps
    THEN categoryProps[c]
    ELSE CategoryProperties(ExecSerial, TRUE, FALSE)

PropsForCategory(c) ==
    IF c \in DOMAIN categoryProps
    THEN categoryProps[c]
    ELSE CategoryProperties(ExecSerial, FALSE, FALSE)

\* The keys of the plugin map in this model, and those Register is called with.
Categories == {OrderedCategories[i] : i \in 1..Len(OrderedCategories)} \cup {CategoryOther}
RegisterCategories == Categories \ {CategoryOther}

----------------------------------------------------------------------------
\* What a plugin process may answer one HandleRequest / HandleResponse RPC with.
\* modifies: the answer carries a ModifiedRequest (a new request object).

Reply(status, headers, body, continue, modifies) ==
    [kind |-> "response", StatusCode |-> status, Headers |-> headers, Body |-> body,
     Continue |-> continue, modifies |-> modifies]

ReplyError == [kind |-> "error"]
ReplyPass == Reply(0, {}, "", TRUE, FALSE)
ReplyModify == Reply(0, {}, "", TRUE, TRUE)
ReplyRewrite == Reply(500, {"X-Rewritten"}, "rewritten", TRUE, FALSE)
ReplyBlock == Reply(403, {"Retry-After"}, "blocked", FALSE, FALSE)

\* The answers drawn in Spec, and those drawn in SpecContent.
PluginReplies == {ReplyError, ReplyPass, ReplyModify, ReplyBlock}
ContentReplies == PluginReplies \cup {ReplyRewrite}

\* The RPC client's result for the n-th call of the Run, made to plugin k of cat.
ClientCall(cat, k, n, reply) ==
    IF reply.kind = "error"
    THEN [resp |-> Nil, err |-> PluginError(cat, k)]
    ELSE [resp |-> HTTPResponse(reply.StatusCode, reply.Headers, reply.Body,
                                reply.Continue,
                                IF reply.modifies THEN HTTPRequest(n) ELSE Nil),
          err |-> NoErr]

\* grpcPluginAdapter.HandleRequest / HandleResponse
AdapterHandleRequest(payload, cat, k, n, reply) ==
    IF payload.type # "HTTPRequest"
    THEN [resp |-> Nil, err |-> ErrInvalidRequestType]
    ELSE ClientCall(cat, k, n, reply)

AdapterHandleResponse(payload, cat, k, n, reply) ==
    IF payload.type # "HTTPResponse"
    THEN [resp |-> Nil, err |-> ErrInvalidResponseType]
    ELSE ClientCall(cat, k, n, reply)

\* CanHandle ignoring the cached capabilities.
CanHandleAny(pi, f) == TRUE

\* PluginInstance.CanHandle / PluginInstance.Required
CanHandle(pi, f) == f \in pi.capabilities
Required(pi) == pi.required

----------------------------------------------------------------------------
\* Pipeline.Run, piece by piece

\* Run lines 59-64: the positions, in registration order, of the plugins of
\* cat that can handle flow f.
ActivePlugins(cat, f) ==
    SelectSeq([i \in 1..Len(plugins[cat]) |-> i],
              LAMBDA i : CanHandle(plugins[cat][i], f))

\* The switch on flow around the plugin call (serial 78-85, parallel 142-149).
Invoke(f, payload, cat, k, n, reply) ==
    CASE f = FlowRequest -> AdapterHandleRequest(payload, cat, k, n, reply)
      [] f = FlowResponse -> AdapterHandleResponse(payload, cat, k, n, reply)
      [] OTHER -> [resp |-> Nil, err |-> ErrUnknownFlow(f)]

\* The short-circuit test with Continue read the wrong way round.
ShortCircuitsInverted(resp) == resp.type = "HTTPResponse" /\ resp.Continue

\* Line 89: the plugin wants to short-circuit.
ShortCircuits(resp) == resp.type = "HTTPResponse" /\ ~resp.Continue

\* The payload never replaced by a ModifiedRequest.
NextPayloadKeep(props, payload, resp) == payload

\* The payload replaced whatever the category's CanModify says.
NextPayloadUnconditional(props, payload, resp) ==
    IF resp.type = "HTTPResponse" /\ resp.ModifiedRequest # Nil
    THEN resp.ModifiedRequest
    ELSE payload

\* Lines 94-98: the payload for the plugins that follow.
NextPayload(props, payload, resp) ==
    IF props.CanModify /\ resp.type = "HTTPResponse" /\ resp.ModifiedRequest # Nil
    THEN resp.ModifiedRequest
    ELSE payload

\* The switch with the CanReject case ahead of the Required case.
ErrorPolicyRejectFirst(required, props) ==
    CASE props.CanReject -> "reject"
      [] required -> "required"
      [] OTHER -> "log"

\* The switch without its default case: every failure is fatal.
ErrorPolicyNoLog(required, props) ==
    IF required THEN "required" ELSE "reject"

\* The switch on a failed call (serial 102-120, parallel 155-173).
ErrorPolicy(required, props) ==
    CASE required -> "required"
      [] props.CanReject -> "reject"
      [] OTHER -> "log"

\* Every fatal failure wrapped in ErrRequiredPluginFailed.
PolicyErrorAlwaysWrap(policy, err) == Wrap(<<ErrRequiredPluginFailed, err>>)

\* The error a failed call makes Run fail with, under policy "required" or "reject".
PolicyError(policy, err) ==
    IF policy = "required" THEN Wrap(<<ErrRequiredPluginFailed, err>>) ELSE err

\* Only the first error of the channel returned.
JoinErrorsFirst(errs) == IF Len(errs) > 0 THEN errs[1] ELSE NoErr

\* Lines 180-186: the parallel category's result from the drained channel.
JoinErrors(errs) == IF Len(errs) > 0 THEN Join(errs) ELSE NoErr

CallRecord(cat, k, f, payload, out) ==
    [cat |-> cat, k |-> k, flow |-> f, input |-> payload, resp |-> out.resp,
     err |-> out.err]

----------------------------------------------------------------------------
\* Middleware: what the exchange has seen so far.
\*   handled: the requests the application handler was invoked with
\*   client:  the writes that reached the client's ResponseWriter, in order

HTTPStatusOK == 200
HTTPStatusInternalServerError == 500
HTTPStatusServiceUnavailable == 503

\* The incoming *http.Request and the wire request converted from it.
IncomingRequest == HTTPRequest(0)

\* What the application's handlers write: a status and a body.
HandlerBody == "app"

WriteHeader(code) == <<"WriteHeader", code>>
Write(body) == <<"Write", body>>
SetHeaders(h) == <<"Header.Set", h>>

\* http.Error(w, msg, code)
HTTPError(msg, code) == <<WriteHeader(code), Write(msg)>>

\* writeHTTPResponse
WriteHTTPResponse(resp) ==
    (IF resp.Headers # {} THEN <<SetHeaders(resp.Headers)>> ELSE <<>>)
    \o (IF resp.StatusCode > 0 THEN <<WriteHeader(resp.StatusCode)>> ELSE <<>>)
    \o (IF resp.Body # "" THEN <<Write(resp.Body)>> ELSE <<>>)

\* RunRequest taking a failed Run for one that completed.
RunRequestIgnoresError(r) ==
    IF r.val.type = "HTTPResponse" THEN [val |-> r.val, err |-> NoErr]
    ELSE [val |-> HTTPResponse(0, {}, "", TRUE, Nil), err |-> NoErr]

\* RunRequest lines 201-211, given what Run returned.
RunRequest(r) ==
    IF r.err # NoErr THEN [val |-> Nil, err |-> r.err]
    ELSE IF r.val.type = "HTTPResponse" THEN [val |-> r.val, err |-> NoErr]
    ELSE [val |-> HTTPResponse(0, {}, "", TRUE, Nil), err |-> NoErr]

\* RunResponse always falling back to its argument.
RunResponseOriginal(resp, r) ==
    IF r.err # NoErr THEN [val |-> Nil, err |-> r.err]
    ELSE [val |-> resp, err |-> NoErr]

\* RunResponse lines 219-229, given its argument and what Run returned.
RunResponse(resp, r) ==
    IF r.err # NoErr THEN [val |-> Nil, err |-> r.err]
    ELSE IF r.val.type = "HTTPResponse" THEN [val |-> r.val, err |-> NoErr]
    ELSE [val |-> resp, err |-> NoErr]

\* Middleware lines 46-51: the recorded handler response as a wire response.
HandlerResponse == HTTPResponse(HTTPStatusOK, {}, HandlerBody, TRUE, Nil)

\*   requestResult: what Run returned to RunRequest
MwIdle == [pc |-> "idle", handled |-> <<>>, client |-> <<>>,
           requestResult |-> [val |-> Nil, err |-> NoErr]]

----------------------------------------------------------------------------
\* internal/plugins/manager.go: the Manager and the child processes it owns.

\* Number of child processes Start spawns.
MaxStarts == 2
\* Number of StopAll calls in a row (with no Start call in between).
MaxStopAlls == 2

\* The names plugins report in GetMetadata (metadata.Name keys Manager.plugins).
PluginNames == {"rate-limit", "header-transformer"}

\* The flows of a GetCapabilitiesResponse: pb.Flow values.
WireFlows == {"FLOW_UNSPECIFIED", "FLOW_REQUEST", "FLOW_RESPONSE"}
CapabilityAnswers ==
    {{}, {"FLOW_UNSPECIFIED"}, {"FLOW_REQUEST"},
     {"FLOW_UNSPECIFIED", "FLOW_REQUEST", "FLOW_RESPONSE"}}

\* fetchCapabilities lines 62-70: the flows kept from the answer.
NormaliseFlows(fs) ==
    {f \in {FlowRequest, FlowResponse} :
        \/ f = FlowRequest /\ "FLOW_REQUEST" \in fs
        \/ f = FlowResponse /\ "FLOW_RESPONSE" \in fs}

ErrStartProcess == [kind |-> "failed to start process"]
ErrStartTimeout == [kind |-> "plugin didn't start in time"]
ErrConnect == [kind |-> "failed to connect to plugin"]
ErrGetMetadata == [kind |-> "failed to get metadata"]
ErrCreatingAdapter == [kind |-> "creating adapter"]

\* A child process right after cmd.Start.
\*   state:  "running", "exited" (on its own) or "killed"
\*   socket: whether the socket file at its address exists
\*   conn:   the grpc.ClientConn to it: "none", "open" or "closed"
\*   events: what the host has done to it, in order
\*   declared: the flows of its GetCapabilities answer if they name no known
\*             flow, NoAnswer otherwise
\*   ctxKilled: os/exec has killed it because the context of its Start was done
NoAnswer == {"none"}
NewProcess == [state |-> "running", socket |-> "absent", conn |-> "none", events |-> <<>>,
               declared |-> NoAnswer, ctxKilled |-> FALSE]

\* The PluginInstance Start builds (lines 143-148) around the adapter, whose
\* cached metadata name and capabilities come from its own RPCs.
\* pkg.PluginConfig{}: the zero Telemetry, no CustomConfig.
PluginConfigZero == [Telemetry |-> "", CustomConfig |-> <<>>]

\* An instance built with required set.
StartedInstanceRequired(id, adapterName, caps) ==
    [id |-> id, metadata |-> adapterName, capabilities |-> caps, required |-> TRUE,
     config |-> PluginConfigZero]

StartedInstance(id, adapterName, caps) ==
    [id |-> id, metadata |-> adapterName, capabilities |-> caps, required |-> FALSE,
     config |-> PluginConfigZero]

RunningPlugin(pid, instance) == [proc |-> pid, instance |-> instance]

\* What the last operation returned.
\*   proc:   the child that Start call had spawned, 0 if none
\*   failed: the processes for which that StopAll call logged "error stopping plugin"
Result(of, err, instance, proc, failed) ==
    [of |-> of, err |-> err, instance |-> instance, proc |-> proc, failed |-> failed]

NoResult == Result("none", NoErr, Nil, 0, {})

\* No operation in progress; prev is the operation that returned last, result what
\* it returned, stopAlls the number of StopAll calls since the last Start call.
OpIdle(prev, result, stopAlls) ==
    [name |-> "idle", pc |-> "", proc |-> 0, meta |-> "", adapterMeta |-> "",
     todo |-> {}, failed |-> {}, prev |-> prev, result |-> result,
     stopAlls |-> stopAlls]

NoPlugins == [n \in {} |-> Nil]

NewManager ==
    /\ managed = NoPlugins
    /\ procs = <<>>
    /\ op = OpIdle("none", NoResult, 0)
    /\ ctx = "live"

\* Manager.Plugins()
Plugins == {managed[n].instance : n \in DOMAIN managed}

pipelineVars == <<categoryProps, plugins, phase, runVars, mw, auxVars>>

\* A kill that the process survives.
KillSurvived(p, failed) ==
    [p EXCEPT !.events = Append(@, IF failed THEN "KillFailed" ELSE "Kill")]

\* cmd.Process.Kill(): the signal goes out unless the process has exited and been
\* reaped already (failed: the kill returned an error).
Kill(p, failed) ==
    [p EXCEPT !.state = IF @ = "running" THEN "killed" ELSE @,
              !.events = Append(@, IF failed THEN "KillFailed" ELSE "Kill")]

\* conn.Close()
Close(p) == [p EXCEPT !.conn = "closed", !.events = Append(@, "Close")]

\* Start returns (nil, err) or (instance, nil).
StartReturns(err, instance) ==
    op' = OpIdle("Start", Result("Start", err, instance, op.proc, {}), 0)

\* Start lines 57-96: spawn the child (started: cmd.Start succeeded).
StartCall(started) ==
    /\ op.name = "idle"
    /\ Len(procs) < MaxStarts
    /\ started => ctx = "live"
    /\ IF started
       THEN /\ procs' = Append(procs, NewProcess)
            /\ op' = [OpIdle(op.prev, op.result, 0) EXCEPT
                          !.name = "Start", !.pc = "waitForSocket",
                          !.proc = Len(procs) + 1]
       ELSE /\ op' = OpIdle("Start", Result("Start", ErrStartProcess, Nil, 0, {}), 0)
            /\ UNCHANGED procs
    /\ UNCHANGED <<managed, ctx, pipelineVars>>

\* The plugin process binds its address.
PluginBinds(pid) ==
    /\ procs[pid].state = "running"
    /\ procs[pid].socket = "absent"
    /\ procs' = [procs EXCEPT ![pid].socket = "bound"]
    /\ UNCHANGED <<managed, op, ctx, pipelineVars>>

\* The plugin process exits on its own.
PluginExits(pid) ==
    /\ procs[pid].state = "running"
    /\ procs' = [procs EXCEPT ![pid].state = "exited"]
    /\ UNCHANGED <<managed, op, ctx, pipelineVars>>

\* waitForSocket lines 260-265 and Start lines 98-115: a dial succeeds; then
\* grpc.NewClient (connected: it returned no error).
WaitForSocketDials(connected) ==
    /\ op.name = "Start"
    /\ op.pc = "waitForSocket"
    /\ procs[op.proc].state = "running"
    /\ procs[op.proc].socket = "bound"
    /\ IF connected
       THEN /\ procs' = [procs EXCEPT ![op.proc].conn = "open"]
            /\ op' = [op EXCEPT !.pc = "GetMetadata"]
       ELSE /\ procs' = [procs EXCEPT ![op.proc] = Kill(@, FALSE)]
            /\ StartReturns(ErrConnect, Nil)
    /\ UNCHANGED <<managed, ctx, pipelineVars>>

\* waitForSocket lines 258-259 and Start lines 98-103: startTimeout expires.
WaitForSocketTimeout ==
    /\ op.name = "Start"
    /\ op.pc = "waitForSocket"
    /\ procs' = [procs EXCEPT ![op.proc] = Kill(@, FALSE)]
    /\ StartReturns(ErrStartTimeout, Nil)
    /\ UNCHANGED <<managed, ctx, pipelineVars>>

\* Start lines 121-129: GetMetadata failed.
GetMetadataFailed ==
    /\ procs' = [procs EXCEPT ![op.proc] = Kill(Close(@), FALSE)]
    /\ StartReturns(ErrGetMetadata, Nil)

\* Start lines 117-129: the plugin answers GetMetadata (ok: with a response
\* naming it answer, or else with an error status).
GetMetadataAnswers(ok, answer) ==
    /\ op.name = "Start"
    /\ op.pc = "GetMetadata"
    /\ IF ~ok
       THEN GetMetadataFailed
       ELSE /\ procs[op.proc].state = "running"
            /\ ctx = "live"
            /\ op' = [op EXCEPT !.pc = "fetchMetadata", !.meta = answer]
            /\ UNCHANGED procs
    /\ UNCHANGED <<managed, ctx, pipelineVars>>

\* Start lines 117-129: callTimeout expires before GetMetadata is answered.
GetMetadataDeadline ==
    /\ op.name = "Start"
    /\ op.pc = "GetMetadata"
    /\ GetMetadataFailed
    /\ UNCHANGED <<managed, ctx, pipelineVars>>

\* The adapter's failure leaving the child process alone.
AdapterFailedLeavesProcess ==
    /\ procs' = [procs EXCEPT ![op.proc] = Close(@)]
    /\ StartReturns(ErrCreatingAdapter, Nil)
    /\ UNCHANGED managed

\* Start lines 137-142: NewGRPCPluginAdapter returned an error.
AdapterFailed ==
    /\ procs' = [procs EXCEPT ![op.proc] = Close(Kill(@, FALSE))]
    /\ StartReturns(ErrCreatingAdapter, Nil)
    /\ UNCHANGED managed

\* NewGRPCPluginAdapter lines 31-34: the plugin answers the adapter's GetMetadata,
\* called with context.Background().
FetchMetadataAnswers(ok, answer) ==
    /\ op.name = "Start"
    /\ op.pc = "fetchMetadata"
    /\ IF ~ok
       THEN AdapterFailed
       ELSE /\ procs[op.proc].state = "running"
            /\ op' = [op EXCEPT !.pc = "fetchCapabilities", !.adapterMeta = answer]
            /\ UNCHANGED <<procs, managed>>
    /\ UNCHANGED <<ctx, pipelineVars>>

\* The empty set of flows passing the adapter's check.
EmptyCapabilitiesAccepted(caps) == FALSE

\* fetchCapabilities lines 72-74: "plugin returned empty capabilities".
EmptyCapabilities(caps) == caps = {}

\* The process after a GetCapabilities answer with these flows.
Declares(p, answer) ==
    [p EXCEPT !.declared = IF NormaliseFlows(answer) = {} THEN answer ELSE @]

\* NewGRPCPluginAdapter lines 35-39 and Start lines 136-163: the plugin answers
\* GetCapabilities, called with context.Background() (ok: with the flows answer,
\* or else with an error status); the running plugin is stored under
\* metadata.Name.
FetchCapabilitiesAnswers(ok, answer) ==
    /\ op.name = "Start"
    /\ op.pc = "fetchCapabilities"
    /\ IF ~ok
       THEN AdapterFailed
       ELSE IF EmptyCapabilities(NormaliseFlows(answer))
       THEN /\ procs' = [procs EXCEPT ![op.proc] =
                            Close(Kill(Declares(@, answer), FALSE))]
            /\ StartReturns(ErrCreatingAdapter, Nil)
            /\ UNCHANGED managed
       ELSE LET instance == StartedInstance(op.meta, op.adapterMeta,
                                            NormaliseFlows(answer))
            IN  /\ procs[op.proc].state = "running"
                /\ managed' = [n \in DOMAIN managed \cup {op.meta} |->
                                  IF n = op.meta THEN RunningPlugin(op.proc, instance)
                                  ELSE managed[n]]
                /\ StartReturns(NoErr, instance)
                /\ procs' = [procs EXCEPT ![op.proc] = Declares(@, answer)]
    /\ UNCHANGED <<ctx, pipelineVars>>

\* StopAll's loop, lines 188-194, in the n-th StopAll call in a row, with todo
\* still to stop and failed the processes whose stopPlugin returned an error
\* (logged): the Stop RPC to the next running plugin (the map was ranged over in
\* any order), or return nil.
StopNext(n, todo, failed) ==
    IF todo = {}
    THEN op' = OpIdle("StopAll", Result("StopAll", NoErr, Nil, 0, failed), n)
    ELSE \E pid \in todo :
             op' = [op EXCEPT !.name = "StopAll", !.pc = "Stop", !.proc = pid,
                              !.todo = todo \ {pid}, !.failed = failed,
                              !.stopAlls = n]

\* StopAll keeping the map as it is.
StopAllCallKeepsMap ==
    /\ op.name = "idle"
    /\ op.stopAlls < MaxStopAlls
    /\ StopNext(op.stopAlls + 1, {managed[n].proc : n \in DOMAIN managed}, {})
    /\ UNCHANGED <<managed, procs, ctx, pipelineVars>>

\* StopAll lines 180-187: snapshot and clear the map, enter the loop.
StopAllCall ==
    /\ op.name = "idle"
    /\ op.stopAlls < MaxStopAlls
    /\ managed' = NoPlugins
    /\ StopNext(op.stopAlls + 1, {managed[n].proc : n \in DOMAIN managed}, {})
    /\ UNCHANGED <<procs, ctx, pipelineVars>>

\* A failed Stop RPC going straight to the kill.
StopRPCReturnsThenKills(stopped, closed) ==
    /\ op.name = "StopAll"
    /\ op.pc = "Stop"
    /\ stopped => procs[op.proc].state = "running"
    /\ procs' = [procs EXCEPT ![op.proc] =
                     IF stopped
                     THEN [@ EXCEPT !.conn = "closed",
                                    !.events = @ \o <<"Stop",
                                                      IF closed THEN "Close" ELSE "CloseFailed",
                                                      "Wait">>]
                     ELSE Kill([@ EXCEPT !.events = Append(@, "StopFailed")], FALSE)]
    /\ op' = [op EXCEPT !.pc = IF stopped THEN "select" ELSE "done"]
    /\ UNCHANGED <<managed, ctx, pipelineVars>>

\* stopPlugin lines 203-214: the Stop RPC is over (stopped: without error, or
\* else with an error status or at its 5 s deadline); close the connection
\* (closed: without error); start waiting for the process.
StopRPCReturns(stopped, closed) ==
    /\ op.name = "StopAll"
    /\ op.pc = "Stop"
    /\ stopped => procs[op.proc].state = "running"
    /\ procs' = [procs EXCEPT ![op.proc] =
                     [@ EXCEPT !.conn = "closed",
                               !.events = @ \o <<IF stopped THEN "Stop" ELSE "StopFailed",
                                                 IF closed THEN "Close" ELSE "CloseFailed",
                                                 "Wait">>]]
    /\ op' = [op EXCEPT !.pc = "select"]
    /\ UNCHANGED <<managed, ctx, pipelineVars>>

\* stopPlugin lines 229-236: os.Remove on the socket file (removed: it did not
\* fail; a file that is not there is no failure).
RemoveSocket(p, removed) ==
    IF p.socket = "absent" THEN [p EXCEPT !.events = Append(@, "Remove")]
    ELSE [p EXCEPT !.socket = IF removed THEN "absent" ELSE @,
                   !.events = Append(@, IF removed THEN "Remove" ELSE "RemoveFailed")]

\* stopPlugin lines 223-236: the process has exited within 2 s.
SelectDone(removed) ==
    /\ op.name = "StopAll"
    /\ op.pc = "select"
    /\ procs[op.proc].state # "running"
    /\ procs' = [procs EXCEPT ![op.proc] = RemoveSocket(@, removed)]
    /\ StopNext(op.stopAlls, op.todo, op.failed)
    /\ UNCHANGED <<managed, ctx, pipelineVars>>

\* stopPlugin lines 217-222: the 2 s are over; kill the process (killFailed: the
\* kill returned an error, the process having exited and been waited for in the
\* meantime, and stopPlugin returns it) and, unless that failed, wait for cmd.Wait.
SelectTimeout(killFailed) ==
    /\ op.name = "StopAll"
    /\ op.pc = "select"
    /\ killFailed => procs[op.proc].state # "running"
    /\ procs' = [procs EXCEPT ![op.proc] = Kill(@, killFailed)]
    /\ IF killFailed
       THEN StopNext(op.stopAlls, op.todo, op.failed \cup {op.proc})
       ELSE op' = [op EXCEPT !.pc = "done"]
    /\ UNCHANGED <<managed, ctx, pipelineVars>>

\* stopPlugin lines 222 and 229-236: <-done after the kill, cmd.Wait having
\* returned; remove the socket file.
KilledDone(removed) ==
    /\ op.name = "StopAll"
    /\ op.pc = "done"
    /\ procs[op.proc].state # "running"
    /\ procs' = [procs EXCEPT ![op.proc] = RemoveSocket(@, removed)]
    /\ StopNext(op.stopAlls, op.todo, op.failed)
    /\ UNCHANGED <<managed, ctx, pipelineVars>>

\* main.go line 182: cancel() on the context every Start was given.
CancelContext ==
    /\ ctx = "live"
    /\ ctx' = "cancelled"
    /\ UNCHANGED <<managed, procs, op, pipelineVars>>

\* Start line 62, exec.CommandContext: once the context is done, os/exec kills
\* the process unless it has completed.
ContextKills(pid) ==
    /\ ctx = "cancelled"
    /\ procs[pid].state = "running"
    /\ procs' = [procs EXCEPT ![pid].state = "killed", ![pid].ctxKilled = TRUE]
    /\ UNCHANGED <<managed, op, ctx, pipelineVars>>

\* What the plugin processes do.
PluginSteps ==
    \/ \E pid \in DOMAIN procs : PluginBinds(pid)
    \/ \E pid \in DOMAIN procs : PluginExits(pid)
    \/ \E ok \in BOOLEAN, answer \in PluginNames : GetMetadataAnswers(ok, answer)
    \/ \E ok \in BOOLEAN, answer \in PluginNames : FetchMetadataAnswers(ok, answer)
    \/ \E ok \in BOOLEAN, answer \in CapabilityAnswers :
           FetchCapabilitiesAnswers(ok, answer)

\* What the host does, its timers included.
HostSteps ==
    \/ \E started \in BOOLEAN : StartCall(started)
    \/ \E connected \in BOOLEAN : WaitForSocketDials(connected)
    \/ WaitForSocketTimeout
    \/ GetMetadataDeadline
    \/ StopAllCall
    \/ \E stopped \in BOOLEAN, closed \in BOOLEAN : StopRPCReturns(stopped, closed)
    \/ \E removed \in BOOLEAN : SelectDone(removed)
    \/ \E killFailed \in BOOLEAN : SelectTimeout(killFailed)
    \/ \E removed \in BOOLEAN : KilledDone(removed)

NextManager == PluginSteps \/ HostSteps

\* Start calls that succeed: the process starts, is dialled and answers the three
\* RPCs of Start, the second GetMetadata as the first.
CleanStartSteps ==
    \/ StartCall(TRUE)
    \/ WaitForSocketDials(TRUE)
    \/ \E answer \in PluginNames : GetMetadataAnswers(TRUE, answer)
    \/ FetchMetadataAnswers(TRUE, op.meta)
    \/ FetchCapabilitiesAnswers(TRUE, WireFlows)

\* stopPlugin's steps: the end of the Stop RPC, at its deadline at the latest, the
\* two cases of the select and the receive from done.
StopPluginSteps ==
    \/ \E stopped \in BOOLEAN, closed \in BOOLEAN : StopRPCReturns(stopped, closed)
    \/ \E removed \in BOOLEAN : SelectDone(removed)
    \/ \E killFailed \in BOOLEAN : SelectTimeout(killFailed)
    \/ \E removed \in BOOLEAN : KilledDone(removed)

NextStopAll ==
    \/ CleanStartSteps
    \/ \E pid \in DOMAIN procs : PluginBinds(pid)
    \/ \E pid \in DOMAIN procs : PluginExits(pid)
    \/ StopAllCall
    \/ StopPluginSteps

\* What the context of the Start calls brings about.
ContextSteps ==
    \/ CancelContext
    \/ \E pid \in DOMAIN procs : ContextKills(pid)

NextManagerCancel == NextManager \/ ContextSteps

----------------------------------------------------------------------------
\* Pipeline.mu unlocked, no adapter on its own, no pure function applied.

\* No grpcPluginAdapter yet, for a plugin that answers GetMetadata with name
\* and GetCapabilities with flows.
\*   state:    "none", "fetchMetadata", "fetchCapabilities", "ready" or "failed"
\*   metadata, capabilities: the adapter's fields
\*   rpcs:     the RPCs the adapter has issued on its client, in order
\*   returned: what Metadata() and Capabilities() calls returned, in order
\*   calls:    the number of operations called on the constructed adapter
NoAdapter == [state |-> "none", metadata |-> "", capabilities |-> {}, rpcs |-> <<>>,
              returned |-> <<>>, calls |-> 0,
              remote |-> [name |-> "rate-limit", flows |-> {"FLOW_REQUEST"}]]
Unlocked == [writer |-> FALSE, readers |-> 0]
\* No goroutine has called the Manager concurrently: no call in progress, no
\* process stored in the map by such a call.
NoThreads == [of |-> <<>>, registered |-> {}, stopAlls |-> 0]
\* The locals of a Run that has not been called.
NoRun == [phase |-> "setup", pc |-> "idle", flow |-> FlowRequest, req |-> Nil, ci |-> 1,
          active |-> <<>>, si |-> 1, pending |-> {}, errCh |-> <<>>,
          ret |-> [val |-> Nil, err |-> NoErr], log |-> <<>>, logged |-> {}]

NoOtherActivity ==
    /\ adapter = NoAdapter
    /\ mu = Unlocked
    /\ registering = Nil
    /\ pure = <<>>
    /\ threads = NoThreads
    /\ suspended = NoRun

----------------------------------------------------------------------------
\* grpcPluginAdapter on its own: construction, then any operations on it, while
\* the plugin behind it changes what it would answer.

\* Number of operations called on the constructed adapter.
MaxAdapterCalls == 3

AdapterOperations == {"Metadata", "Capabilities", "Configure", "Stop", "Health",
                      "Ready", "HandleRequest", "HandleResponse"}
PayloadTypes == {"HTTPRequest", "HTTPResponse", "nil"}

\* Metadata() asking the plugin again.
IssuedRPCsRefetching(operation, payloadType) ==
    CASE operation = "Metadata" -> <<"GetMetadata">>
      [] operation = "Capabilities" -> <<>>
      [] operation = "Configure" -> <<"Configure">>
      [] operation = "Stop" -> <<"Stop">>
      [] operation = "Health" -> <<"CheckHealth">>
      [] operation = "Ready" -> <<"CheckReady">>
      [] operation = "HandleRequest" ->
             IF payloadType = "HTTPRequest" THEN <<"HandleRequest">> ELSE <<>>
      [] operation = "HandleResponse" ->
             IF payloadType = "HTTPResponse" THEN <<"HandleResponse">> ELSE <<>>

\* The RPCs one operation of the adapter issues on its client (lines 80-144).
IssuedRPCs(operation, payloadType) ==
    CASE operation = "Metadata" -> <<>>
      [] operation = "Capabilities" -> <<>>
      [] operation = "Configure" -> <<"Configure">>
      [] operation = "Stop" -> <<"Stop">>
      [] operation = "Health" -> <<"CheckHealth">>
      [] operation = "Ready" -> <<"CheckReady">>
      [] operation = "HandleRequest" ->
             IF payloadType = "HTTPRequest" THEN <<"HandleRequest">> ELSE <<>>
      [] operation = "HandleResponse" ->
             IF payloadType = "HTTPResponse" THEN <<"HandleResponse">> ELSE <<>>

\* What Metadata() (lines 80-82) and Capabilities() (85-87) return: the fields.
CachedValue(operation) ==
    CASE operation = "Metadata" ->
             <<[of |-> "Metadata", name |-> adapter.metadata, flows |-> {}]>>
      [] operation = "Capabilities" ->
             <<[of |-> "Capabilities", name |-> "", flows |-> adapter.capabilities]>>
      [] OTHER -> <<>>

adapterOthers == <<categoryProps, plugins, phase, runVars, mw, mgrVars, mu,
                   registering, pure, threads, suspended>>

\* The plugin starts answering GetMetadata / GetCapabilities differently.
PluginChanges(name, flows) ==
    /\ adapter.remote # [name |-> name, flows |-> flows]
    /\ adapter' = [adapter EXCEPT !.remote = [name |-> name, flows |-> flows]]
    /\ UNCHANGED adapterOthers

\* NewGRPCPluginAdapter lines 28-34: fetchMetadata (ok: the RPC returned no error).
NewGRPCPluginAdapter(ok) ==
    /\ adapter.state = "none"
    /\ adapter' = [adapter EXCEPT
                       !.rpcs = Append(@, "GetMetadata"),
                       !.metadata = IF ok THEN adapter.remote.name ELSE @,
                       !.state = IF ok THEN "fetchCapabilities" ELSE "failed"]
    /\ UNCHANGED adapterOthers

\* NewGRPCPluginAdapter lines 35-39: fetchCapabilities.
AdapterFetchCapabilities(ok) ==
    /\ adapter.state = "fetchCapabilities"
    /\ LET flows == NormaliseFlows(adapter.remote.flows)
           built == ok /\ ~EmptyCapabilities(flows)
       IN  adapter' = [adapter EXCEPT
                           !.rpcs = Append(@, "GetCapabilities"),
                           !.capabilities = IF built THEN flows ELSE @,
                           !.state = IF built THEN "ready" ELSE "failed"]
    /\ UNCHANGED adapterOthers

\* One operation on the constructed adapter.
AdapterCall(operation, payloadType) ==
    /\ adapter.state = "ready"
    /\ adapter.calls < MaxAdapterCalls
    /\ adapter' = [adapter EXCEPT
                       !.calls = @ + 1,
                       !.rpcs = @ \o IssuedRPCs(operation, payloadType),
                       !.returned = @ \o CachedValue(operation)]
    /\ UNCHANGED adapterOthers

NextAdapter ==
    \/ \E name \in PluginNames, flows \in CapabilityAnswers : PluginChanges(name, flows)
    \/ \E ok \in BOOLEAN : NewGRPCPluginAdapter(ok)
    \/ \E ok \in BOOLEAN : AdapterFetchCapabilities(ok)
    \/ \E operation \in AdapterOperations, payloadType \in PayloadTypes :
           AdapterCall(operation, payloadType)

----------------------------------------------------------------------------
Init ==
    /\ categoryProps = CategoryPropsTable
    /\ plugins = [c \in Categories |-> <<>>]
    /\ phase = "setup"
    /\ pc = "idle"
    /\ flow = FlowRequest
    /\ req = Nil
    /\ ci = 1
    /\ active = <<>>
    /\ si = 1
    /\ pending = {}
    /\ errCh = <<>>
    /\ ret = [val |-> Nil, err |-> NoErr]
    /\ log = <<>>
    /\ logged = {}
    /\ mw = MwIdle
    /\ NewManager
    /\ NoOtherActivity

Registered == LET n[i \in 0..Len(OrderedCategories)] ==
                      IF i = 0 THEN Len(plugins[CategoryOther])
                      ELSE n[i - 1] + Len(plugins[OrderedCategories[i]])
              IN n[Len(OrderedCategories)]

\* Pipeline.Register(cat, pl)
Register(cat, pl) ==
    /\ phase = "setup"
    /\ Registered < MaxPlugins
    /\ plugins' = [plugins EXCEPT ![cat] = Append(@, pl)]
    /\ UNCHANGED <<categoryProps, phase, runVars, mw, mgrVars, auxVars>>

\* Run returns (val, err).
Return(val, err) ==
    /\ pc' = "returned"
    /\ ret' = [val |-> val, err |-> err]

\* Run lines 55-70: the first category, from index c of OrderedCategories on, that
\* has a plugin active for flow f (the categories before it are skipped), or
\* Len(OrderedCategories) + 1 when the loop runs out.
NextActiveCategory(c, f) ==
    LET S == {i \in c..Len(OrderedCategories) :
                  Len(ActivePlugins(OrderedCategories[i], f)) > 0}
    IN  IF S = {} THEN Len(OrderedCategories) + 1
        ELSE CHOOSE i \in S : \A j \in S : i <= j

\* The sanity check never failing.
ParallelModifyAllowed(props) == FALSE

\* Lines 124-130: the sanity check at the head of the parallel case.
ParallelModify(props) == props.CanModify

\* Run lines 55-72, 123-133 and 187-192: the category loop from index c on, with
\* flow f and payload as req, up to the next plugin call or to Run's return.
EnterCategory(c, f, payload) ==
    LET i == NextActiveCategory(c, f)
    IN  /\ ci' = i
        /\ IF i > Len(OrderedCategories)
           THEN /\ Return(payload, NoErr)
                /\ UNCHANGED <<active, si, pending, errCh>>
           ELSE LET cat == OrderedCategories[i]
                    props == PropsForCategory(cat)
                    act == ActivePlugins(cat, f)
                IN  CASE props.Mode = ExecSerial ->
                            /\ pc' = "serial"
                            /\ active' = act
                            /\ si' = 1
                            /\ UNCHANGED <<ret, pending, errCh>>
                      [] props.Mode = ExecParallel /\ ParallelModify(props) ->
                            /\ Return(Nil, ErrParallelModify(cat))
                            /\ UNCHANGED <<active, si, pending, errCh>>
                      [] props.Mode = ExecParallel /\ ~ParallelModify(props) ->
                            /\ pc' = "parallel"
                            /\ active' = act
                            /\ pending' = 1..Len(act)
                            /\ errCh' = <<>>
                            /\ UNCHANGED <<ret, si>>
                      [] OTHER ->
                            /\ Return(Nil, ErrUnsupportedMode(cat))
                            /\ UNCHANGED <<active, si, pending, errCh>>

\* Entry of Run(ctx, f, payload), up to the first plugin call or to Run's return.
EnterRun(f, payload) ==
    /\ flow' = f
    /\ req' = payload
    /\ log' = <<>>
    /\ logged' = {}
    /\ EnterCategory(1, f, payload)

\* The payload a caller passes to Run for flow f.
PayloadFor(f) == IF f = FlowResponse THEN HandlerResponse ELSE IncomingRequest

\* A caller invokes Run directly.
CallRun(f) ==
    /\ phase = "setup"
    /\ phase' = "run"
    /\ EnterRun(f, PayloadFor(f))
    /\ UNCHANGED <<categoryProps, plugins, mw, mgrVars, auxVars>>

\* Serial mode, after a plugin call that does not end Run: the next plugin of the
\* category, or the categories that follow, with payload as req.
SerialAdvance(payload) ==
    IF si < Len(active)
    THEN /\ si' = si + 1
         /\ UNCHANGED <<pc, ci, ret, active, pending, errCh>>
    ELSE EnterCategory(ci + 1, flow, payload)

\* Run lines 74-121: one iteration of the serial loop, the plugin answering reply.
SerialCall(reply) ==
    /\ pc = "serial"
    /\ LET cat == OrderedCategories[ci]
           props == PropsForCategory(cat)
           k == active[si]
           out == Invoke(flow, req, cat, k, Len(log) + 1, reply)
           policy == ErrorPolicy(Required(plugins[cat][k]), props)
       IN  /\ log' = Append(log, CallRecord(cat, k, flow, req, out))
           /\ IF out.err = NoErr
              THEN IF ShortCircuits(out.resp)
                   THEN /\ Return(out.resp, NoErr)
                        /\ UNCHANGED <<req, ci, si, logged, active, pending, errCh>>
                   ELSE /\ req' = NextPayload(props, req, out.resp)
                        /\ SerialAdvance(NextPayload(props, req, out.resp))
                        /\ UNCHANGED logged
              ELSE IF policy = "log"
                   THEN /\ logged' = logged \cup {<<cat, k>>}
                        /\ SerialAdvance(req)
                        /\ UNCHANGED req
                   ELSE /\ Return(Nil, PolicyError(policy, out.err))
                        /\ UNCHANGED <<req, ci, si, logged, active, pending, errCh>>
    /\ UNCHANGED <<categoryProps, plugins, phase, flow, mw, mgrVars, auxVars>>

\* A parallel goroutine taking over the ModifiedRequest of its plugin's response.
DiscardResponseModified(payload, resp) ==
    IF resp.type = "HTTPResponse" /\ resp.ModifiedRequest # Nil
    THEN resp.ModifiedRequest
    ELSE payload

\* Run lines 144 and 146: "_, err =", the response of the plugin is dropped and
\* req stays what it was.
DiscardResponse(payload, resp) == payload

\* Run lines 137-174: the goroutine started for active[g], from its plugin call to
\* wg.Done, the plugin answering reply. The goroutines run in any order.
ParallelCall(g, reply) ==
    /\ pc = "parallel"
    /\ g \in pending
    /\ LET cat == OrderedCategories[ci]
           props == PropsForCategory(cat)
           k == active[g]
           out == Invoke(flow, req, cat, k, Len(log) + 1, reply)
           policy == ErrorPolicy(Required(plugins[cat][k]), props)
       IN  /\ log' = Append(log, CallRecord(cat, k, flow, req, out))
           /\ pending' = pending \ {g}
           /\ req' = DiscardResponse(req, out.resp)
           /\ IF out.err = NoErr
              THEN UNCHANGED <<errCh, logged>>
              ELSE IF policy = "log"
                   THEN /\ logged' = logged \cup {<<cat, k>>}
                        /\ UNCHANGED errCh
                   ELSE /\ errCh' = Append(errCh, PolicyError(policy, out.err))
                        /\ UNCHANGED logged
    /\ UNCHANGED <<categoryProps, plugins, phase, pc, flow, ci, active, si, ret, mw,
                   mgrVars, auxVars>>

\* wg.Wait() giving up as soon as an error is in the channel.
WaitReturnsOnError(running, errors) == running = {} \/ errors # <<>>

\* Run line 177: wg.Wait() returns once every goroutine has called wg.Done.
WaitReturns(running, errors) == running = {}

\* Run lines 177-186: wg.Wait() returns, the channel is drained.
ParallelJoin ==
    /\ pc = "parallel"
    /\ WaitReturns(pending, errCh)
    /\ IF JoinErrors(errCh) # NoErr
       THEN /\ Return(Nil, JoinErrors(errCh))
            /\ UNCHANGED <<ci, active, si, pending, errCh>>
       ELSE EnterCategory(ci + 1, flow, req)
    /\ UNCHANGED <<categoryProps, plugins, phase, flow, req, log, logged, mw, mgrVars, auxVars>>

----------------------------------------------------------------------------
\* Pipeline.Middleware: the handler wrapped around next, split where it waits for Run.

\* Lines 15-26: convert the request (converted tells whether reading the body
\* succeeded) and start the REQUEST flow.
MiddlewareServe(converted) ==
    /\ phase = "setup"
    /\ phase' = "http"
    /\ IF converted
       THEN /\ mw' = [mw EXCEPT !.pc = "request"]
            /\ EnterRun(FlowRequest, IncomingRequest)
       ELSE /\ mw' = [mw EXCEPT !.pc = "done",
                                !.client = HTTPError("Failed to process request",
                                                     HTTPStatusInternalServerError)]
            /\ UNCHANGED runVars
    /\ UNCHANGED <<categoryProps, plugins, mgrVars, auxVars>>

\* Lines 26-54: RunRequest has returned; answer, or call next and start the
\* RESPONSE flow. The recorder passes the handler's writes on to the client.
MiddlewareAfterRequest ==
    /\ phase = "http"
    /\ mw.pc = "request"
    /\ pc = "returned"
    /\ LET r == RunRequest(ret)
       IN  IF r.err # NoErr
           THEN /\ mw' = [mw EXCEPT !.pc = "done", !.requestResult = ret,
                                    !.client = HTTPError("Service unavailable",
                                                         HTTPStatusServiceUnavailable)]
                /\ UNCHANGED runVars
           ELSE IF ~r.val.Continue
           THEN /\ mw' = [mw EXCEPT !.pc = "done", !.requestResult = ret,
                                    !.client = WriteHTTPResponse(r.val)]
                /\ UNCHANGED runVars
           ELSE /\ mw' = [mw EXCEPT !.pc = "response", !.requestResult = ret,
                                    !.handled = Append(@, IncomingRequest),
                                    !.client = <<WriteHeader(HTTPStatusOK),
                                                 Write(HandlerBody)>>]
                /\ EnterRun(FlowResponse, HandlerResponse)
    /\ UNCHANGED <<categoryProps, plugins, phase, mgrVars, auxVars>>

\* Lines 54-63: RunResponse has returned; write the final response.
MiddlewareAfterResponse ==
    /\ phase = "http"
    /\ mw.pc = "response"
    /\ pc = "returned"
    /\ LET r == RunResponse(HandlerResponse, ret)
       IN  mw' = [mw EXCEPT !.pc = "done",
                            !.client = @ \o (IF r.err # NoErr
                                             THEN HTTPError("Service unavailable",
                                                            HTTPStatusServiceUnavailable)
                                             ELSE WriteHTTPResponse(r.val))]
    /\ UNCHANGED <<categoryProps, plugins, phase, runVars, mgrVars, auxVars>>

----------------------------------------------------------------------------
\* Everything but registration: the pipeline serving, the plugins answering
\* with replies.
Serve(replies) ==
    \/ \E f \in Flows : CallRun(f)
    \/ \E reply \in replies : SerialCall(reply)
    \/ \E g \in pending, reply \in replies : ParallelCall(g, reply)
    \/ ParallelJoin
    \/ \E converted \in BOOLEAN : MiddlewareServe(converted)
    \/ MiddlewareAfterRequest
    \/ MiddlewareAfterResponse

Next ==
    \/ \E cat \in RegisterCategories, pl \in PluginInstances : Register(cat, pl)
    \/ Serve(PluginReplies)

Spec == Init /\ [][Next]_vars

\* The manager alone: Start and StopAll called one after the other.
SpecManager == Init /\ [][NextManager]_vars

\* The same under the scheduling the host is owed: its own steps and timers go on.
----------------------------------------------------------------------------
\* The pure functions, applied one call after the other.

\* Number of calls.
MaxCalls == 2

\* runtime.GOOS
OperatingSystems == {"windows", "linux"}

\* filepath.Base(binaryPath), character by character.
BinaryNames == {<<"a">>, <<"a", " ", "b">>, <<"a", "-", "b">>}

\* time.Now().UnixNano() at the calls.
Clock == {0, 1, 10000, 1000000, 1000001}

\* strings.ReplaceAll(s, old, new) for one-character old and new.
ReplaceAll(str, old, new) == [i \in DOMAIN str |-> IF str[i] = old THEN new ELSE str[i]]

\* generateAddress lines 239-250 at time now. The address is the text
\* prefix ++ name ++ "-" ++ n ++ ".sock" (unix) or prefix ++ n (tcp).
GenerateAddress(goos, pluginName, now) ==
    IF goos = "windows"
    THEN [network |-> "tcp",
          address |-> [prefix |-> "localhost:", name |-> <<>>,
                       n |-> 50000 + (now % 10000)]]
    ELSE [network |-> "unix",
          address |-> [prefix |-> "TempDir/plugin-",
                       name |-> ReplaceAll(pluginName, " ", "-"),
                       n |-> now % 1000000]]

\* The category values PropsForCategory is applied to: the declared ones and
\* other strings.
CategoryValues == Categories \cup {"", "Content", "observability ", "authn"}

pureOthers == <<categoryProps, plugins, phase, runVars, mw, mgrVars, adapter, mu,
                registering, threads, suspended>>

\* Start line 59: generateAddress, on a host whose runtime.GOOS is goos, after
\* the calls made so far.
GenerateAddressCall(goos, pluginName, now) ==
    /\ Len(pure) < MaxCalls
    /\ \A i \in DOMAIN pure :
           pure[i].fn = "generateAddress" => (pure[i].goos = goos /\ pure[i].now < now)
    /\ pure' = Append(pure, [fn |-> "generateAddress", goos |-> goos,
                             pluginName |-> pluginName, now |-> now,
                             result |-> GenerateAddress(goos, pluginName, now)])
    /\ UNCHANGED pureOthers

\* Run line 56: PropsForCategory(c).
PropsForCategoryCall(c) ==
    /\ Len(pure) < MaxCalls
    /\ pure' = Append(pure, [fn |-> "PropsForCategory", c |-> c,
                             result |-> PropsForCategory(c)])
    /\ UNCHANGED pureOthers

NextPure ==
    \/ \E goos \in OperatingSystems, pluginName \in BinaryNames, now \in Clock :
           GenerateAddressCall(goos, pluginName, now)
    \/ \E c \in CategoryValues : PropsForCategoryCall(c)

SpecPure == Init /\ [][NextPure]_vars

\* A grpcPluginAdapter used on its own.
SpecAdapter == Init /\ [][NextAdapter]_vars

\* StopAll on plugins that started, under the scheduling the host is owed: the
\* goroutine in stopPlugin and its timers go on.
SpecStopAllLive == Init /\ [][NextStopAll]_vars /\ WF_vars(StopPluginSteps)

\* The manager with main's context, which the signal handler cancels.
SpecManagerCancel == Init /\ [][NextManagerCancel]_vars

SpecManagerLive == Init /\ [][NextManager]_vars /\ WF_vars(HostSteps)

\* The pipeline as startup leaves it when up to MaxContent plugins that handle
\* the REQUEST flow were registered as content plugins, and at most one more
\* plugin as an observability plugin or under a category of its own.
MaxContent == 3

RequestInstances == {pi \in PluginInstances : CanHandle(pi, FlowRequest)}

SeqsUpTo(S, n) == UNION {[1..m -> S] : m \in 0..n}

ContentRegistries ==
    {[c \in Categories |->
         CASE c = CategoryContent -> content
           [] c = extra -> <<PluginInstance({FlowRequest, FlowResponse}, FALSE)>>
           [] OTHER -> <<>>] :
     content \in SeqsUpTo(RequestInstances, MaxContent),
     extra \in {CategoryObservability, CategoryOther, "none"}}

InitContent ==
    /\ categoryProps = CategoryPropsTable
    /\ plugins \in ContentRegistries
    /\ phase = "setup"
    /\ pc = "idle"
    /\ flow = FlowRequest
    /\ req = Nil
    /\ ci = 1
    /\ active = <<>>
    /\ si = 1
    /\ pending = {}
    /\ errCh = <<>>
    /\ ret = [val |-> Nil, err |-> NoErr]
    /\ log = <<>>
    /\ logged = {}
    /\ mw = MwIdle
    /\ NewManager
    /\ NoOtherActivity

SpecContent == InitContent /\ [][Serve(ContentReplies)]_vars

\* The pipeline over a category table that differs from categories.go in one
\* category (the first, a middle or the last one of the order), which holds up
\* to MaxVaried plugins; at most one more plugin is registered, under a category
\* that runs before or after it. Run is called directly.
MaxVaried == 2

VariedCategories == {CategoryObservability, CategoryValidation, CategoryContent}

\* An ExecutionMode value (ExecutionMode is an int) that is neither mode.
ExecOther == ExecParallel + 1
ExecutionModes == {ExecSerial, ExecParallel, ExecOther}

TablesVarying(c) ==
    {[CategoryPropsTable EXCEPT ![c] = CategoryProperties(m, r, w)] :
     m \in ExecutionModes, r \in BOOLEAN, w \in BOOLEAN}

RegistriesAround(c) ==
    {[d \in Categories |->
         CASE d = c -> varied
           [] d = extra -> <<PluginInstance({FlowRequest, FlowResponse}, FALSE)>>
           [] OTHER -> <<>>] :
     varied \in SeqsUpTo(PluginInstances, MaxVaried),
     extra \in {CategoryAuthN, CategoryContent, "none"} \ {c}}

InitTables ==
    /\ \E c \in VariedCategories :
           /\ categoryProps \in TablesVarying(c)
           /\ plugins \in RegistriesAround(c)
    /\ phase = "setup"
    /\ pc = "idle"
    /\ flow = FlowRequest
    /\ req = Nil
    /\ ci = 1
    /\ active = <<>>
    /\ si = 1
    /\ pending = {}
    /\ errCh = <<>>
    /\ ret = [val |-> Nil, err |-> NoErr]
    /\ log = <<>>
    /\ logged = {}
    /\ mw = MwIdle
    /\ NewManager
    /\ NoOtherActivity

\* Run called directly, the plugins answering with replies.
ServeRun(replies) ==
    \/ \E f \in Flows : CallRun(f)
    \/ \E reply \in replies : SerialCall(reply)
    \/ \E g \in pending, reply \in replies : ParallelCall(g, reply)
    \/ ParallelJoin

SpecTables == InitTables /\ [][ServeRun(PluginReplies)]_vars

\* Registration under a category outside OrderedCategories, beside the first and
\* the last category of the order; Run is called directly.
AnyCategories == {CategoryOther, CategoryObservability, CategoryContent}

NextAnyCategory ==
    \/ \E cat \in AnyCategories, pl \in PluginInstances : Register(cat, pl)
    \/ ServeRun(PluginReplies)

SpecAnyCategory == Init /\ [][NextAnyCategory]_vars

----------------------------------------------------------------------------
\* Register called from another goroutine while Run is being served.
RegisterLock(cat, pl) ==
    /\ registering = Nil
    /\ Registered < MaxPlugins
    /\ ~mu.writer /\ mu.readers = 0
    /\ mu' = [mu EXCEPT !.writer = TRUE]
    /\ registering' = [cat |-> cat, pl |-> pl]
    /\ UNCHANGED <<categoryProps, plugins, phase, runVars, mw, mgrVars, adapter, pure, threads, suspended>>

\* Register lines 47-48: the append, and the deferred Unlock.
RegisterUnlock ==
    /\ registering # Nil
    /\ plugins' = [plugins EXCEPT ![registering.cat] = Append(@, registering.pl)]
    /\ mu' = [mu EXCEPT !.writer = FALSE]
    /\ registering' = Nil
    /\ UNCHANGED <<categoryProps, phase, runVars, mw, mgrVars, adapter, pure, threads, suspended>>

\* Run is at line 57, about to read p.plugins[cat].
AtRegistryRead ==
    \/ pc = "idle" /\ phase = "setup"
    \/ pc = "serial" /\ si = Len(active)
    \/ pc = "parallel" /\ pending = {}

\* Run line 57 while Register is between lines 45 and 48: besides the old and the
\* new list, the map access can end the process ("fatal error: concurrent map
\* read and map write").
ConcurrentMapAccess ==
    /\ registering # Nil
    /\ AtRegistryRead
    /\ pc' = "fatal"
    /\ phase' = "run"
    /\ UNCHANGED <<categoryProps, plugins, flow, req, ci, active, si, pending, errCh,
                   ret, log, logged, mw, mgrVars, auxVars>>

\* The categories registered into while Run is served: a parallel one, the first
\* and the last serial one.
ConcurrentCategories == {CategoryObservability, CategoryAuthN, CategoryContent}

NextConcurrent ==
    \/ \E cat \in ConcurrentCategories, pl \in PluginInstances : RegisterLock(cat, pl)
    \/ RegisterUnlock
    \/ ConcurrentMapAccess
    \/ ServeRun(PluginReplies)

\* Run served while Register is called from another goroutine.
SpecConcurrent == Init /\ [][NextConcurrent]_vars

----------------------------------------------------------------------------
\* Start and StopAll called from several goroutines at once. Each call is a
\* thread: [name, proc, snapshot, stopped]. m.mu makes the map write of Start
\* (lines 159-161) and the snapshot and clear of StopAll (lines 180-186) one
\* step each; stopPlugin runs outside the lock, one plugin at a time.
MaxThreads == 3

threadOthers == <<categoryProps, plugins, phase, runVars, mw, op, ctx, adapter, mu,
                  registering, pure, suspended>>

StartThread(pid) == [name |-> "Start", proc |-> pid, snapshot |-> {}, stopped |-> {}]
StopAllThread(snapshot) ==
    [name |-> "StopAll", proc |-> 0, snapshot |-> snapshot, stopped |-> {}]
ThreadReturned(t) == [t EXCEPT !.name = "returned"]

\* Start lines 57-96 in a new goroutine: the child is spawned.
ThreadStartCall ==
    /\ Len(threads.of) < MaxThreads
    /\ Len(procs) < MaxStarts
    /\ procs' = Append(procs, NewProcess)
    /\ threads' = [threads EXCEPT !.of = Append(@, StartThread(Len(procs) + 1))]
    /\ UNCHANGED <<managed, threadOthers>>

\* Start lines 98-142 failing in thread t: the child is killed, nothing stored.
ThreadStartFails(t) ==
    /\ threads.of[t].name = "Start"
    /\ procs' = [procs EXCEPT ![threads.of[t].proc] = Kill(@, FALSE)]
    /\ threads' = [threads EXCEPT !.of[t] = ThreadReturned(@)]
    /\ UNCHANGED <<managed, threadOthers>>

\* Start lines 98-163 succeeding in thread t: the socket is bound, the connection
\* open, the plugin has answered with its name and its flows, and the running
\* plugin is stored under metadata.Name while m.mu is held.
ThreadStartStores(t, name, flows) ==
    /\ threads.of[t].name = "Start"
    /\ LET pid == threads.of[t].proc
       IN  /\ procs[pid].state = "running"
           /\ procs' = [procs EXCEPT ![pid] = [@ EXCEPT !.socket = "bound",
                                                        !.conn = "open"]]
           /\ managed' = [n \in DOMAIN managed \cup {name} |->
                             IF n = name
                             THEN RunningPlugin(pid, StartedInstance(name, name, flows))
                             ELSE managed[n]]
           /\ threads' = [threads EXCEPT !.of[t] = ThreadReturned(@),
                                         !.registered = @ \cup {pid}]
    /\ UNCHANGED threadOthers

\* StopAll lines 180-186 in a new goroutine: with m.mu held, copy the map's
\* values and replace the map by an empty one.
ThreadStopAllCall ==
    /\ Len(threads.of) < MaxThreads
    /\ threads.stopAlls < MaxStopAlls
    /\ managed' = NoPlugins
    /\ threads' = [threads EXCEPT
                      !.of = Append(@, StopAllThread({managed[n].proc : n \in DOMAIN managed})),
                      !.stopAlls = @ + 1]
    /\ UNCHANGED <<procs, threadOthers>>

\* stopPlugin, lines 197-237, for the next plugin of thread t's snapshot: Stop
\* RPC, Close, Wait, and the kill when the 2 s timer ends the wait (timedOut);
\* the socket file is removed.
ThreadStopPlugin(t, pid, timedOut) ==
    /\ threads.of[t].name = "StopAll"
    /\ pid \in threads.of[t].snapshot \ threads.of[t].stopped
    /\ procs' = [procs EXCEPT ![pid] =
                     LET waited == [@ EXCEPT !.conn = "closed",
                                             !.events = @ \o <<"Stop", "Close", "Wait">>]
                         ended == IF timedOut THEN Kill(waited, FALSE)
                                  ELSE [waited EXCEPT !.state = "exited"]
                     IN  [ended EXCEPT !.socket = "absent"]]
    /\ threads' = [threads EXCEPT !.of[t].stopped = @ \cup {pid}]
    /\ UNCHANGED <<managed, threadOthers>>

\* StopAll line 194 in thread t: every plugin of the snapshot has been handled.
ThreadStopAllReturns(t) ==
    /\ threads.of[t].name = "StopAll"
    /\ threads.of[t].snapshot = threads.of[t].stopped
    /\ threads' = [threads EXCEPT !.of[t] = ThreadReturned(@)]
    /\ UNCHANGED <<managed, procs, threadOthers>>

NextThreads ==
    \/ ThreadStartCall
    \/ ThreadStopAllCall
    \/ \E t \in DOMAIN threads.of : ThreadStartFails(t)
    \/ \E t \in DOMAIN threads.of, name \in PluginNames,
          flows \in {{FlowRequest}, {FlowRequest, FlowResponse}} :
           ThreadStartStores(t, name, flows)
    \/ \E t \in DOMAIN threads.of, pid \in DOMAIN procs, timedOut \in BOOLEAN :
           ThreadStopPlugin(t, pid, timedOut)
    \/ \E t \in DOMAIN threads.of : ThreadStopAllReturns(t)

\* The Manager called from up to MaxThreads goroutines.
SpecThreads == Init /\ [][NextThreads]_vars

----------------------------------------------------------------------------
\* Two Runs on one Pipeline, each on its own goroutine. What Run declares (its
\* parameters flow and req, the loop variables, wg, errCh, its result) lives on
\* the goroutine; the Pipeline's plugins and the category table are shared. One
\* goroutine is scheduled at a time and the other's locals are in suspended.
Locals ==
    [phase |-> phase, pc |-> pc, flow |-> flow, req |-> req, ci |-> ci,
     active |-> active, si |-> si, pending |-> pending, errCh |-> errCh, ret |-> ret,
     log |-> log, logged |-> logged]

\* A scheduler switch that leaves req where it is, as if both Runs had one req.
SwitchSharingReq ==
    /\ suspended' = Locals
    /\ phase' = suspended.phase
    /\ pc' = suspended.pc
    /\ flow' = suspended.flow
    /\ req' = req
    /\ ci' = suspended.ci
    /\ active' = suspended.active
    /\ si' = suspended.si
    /\ pending' = suspended.pending
    /\ errCh' = suspended.errCh
    /\ ret' = suspended.ret
    /\ log' = suspended.log
    /\ logged' = suspended.logged
    /\ UNCHANGED <<categoryProps, plugins, mw, mgrVars, adapter, mu, registering, pure,
                   threads>>

\* The scheduler switches to the other goroutine: each Run continues with its
\* own locals (Run lines 54-193 declare no package or Pipeline state but
\* p.plugins, which Run only reads).
Switch ==
    /\ suspended' = Locals
    /\ phase' = suspended.phase
    /\ pc' = suspended.pc
    /\ flow' = suspended.flow
    /\ req' = suspended.req
    /\ ci' = suspended.ci
    /\ active' = suspended.active
    /\ si' = suspended.si
    /\ pending' = suspended.pending
    /\ errCh' = suspended.errCh
    /\ ret' = suspended.ret
    /\ log' = suspended.log
    /\ logged' = suspended.logged
    /\ UNCHANGED <<categoryProps, plugins, mw, mgrVars, adapter, mu, registering, pure,
                   threads>>

\* The plugins registered before the two Runs: they handle both flows, in a
\* parallel category (at most MaxObservers of them) and in the one category
\* that may modify.
MaxObservers == 1
TwoRunsCategories == {CategoryObservability, CategoryContent}
TwoRunsInstances == {PluginInstance({FlowRequest, FlowResponse}, r) : r \in BOOLEAN}

NextTwoRuns ==
    \/ \E cat \in TwoRunsCategories, pl \in TwoRunsInstances :
           /\ suspended.phase = "setup"
           /\ cat = CategoryObservability => Len(plugins[cat]) < MaxObservers
           /\ Register(cat, pl)
    \/ ServeRun(PluginReplies)
    \/ Switch

SpecTwoRuns == Init /\ [][NextTwoRuns]_vars

----------------------------------------------------------------------------
\* The host, main.go lines 107-143: every binary is started by the Manager and,
\* if Start succeeded, its instance is registered under the category its file
\* name selects; then exchanges are served, and StopAll runs on the way out.
HostCategories ==
    {CategoryContent, CategoryValidation, CategoryRateLimiting, CategoryObservability}

\* Start has returned an instance that main has not registered yet.
AwaitingRegister ==
    op.name = "idle" /\ op.prev = "Start" /\ op.result.err = NoErr

\* main.go lines 124-141: p.Register(category, instance).
HostRegister(cat) ==
    /\ AwaitingRegister
    /\ phase = "setup"
    /\ plugins' = [plugins EXCEPT ![cat] = Append(@, op.result.instance)]
    /\ op' = OpIdle("Register", op.result, 0)
    /\ UNCHANGED <<categoryProps, phase, runVars, mw, managed, procs, ctx, auxVars>>

\* main.go lines 118-123: the loop calls Start for the next binary; the steps of
\* that Start, which fails if the plugin declares no flow.
HostStartSteps ==
    /\ phase = "setup"
    /\ ~AwaitingRegister
    /\ \/ StartCall(TRUE)
       \/ \E pid \in DOMAIN procs : PluginBinds(pid)
       \/ WaitForSocketDials(TRUE)
       \/ \E answer \in PluginNames : GetMetadataAnswers(TRUE, answer)
       \/ FetchMetadataAnswers(TRUE, op.meta)
       \/ \E answer \in CapabilityAnswers : FetchCapabilitiesAnswers(TRUE, answer)

\* Run, once the loop is over.
HostServes ==
    /\ op.name = "idle" \/ phase # "setup"
    /\ ~AwaitingRegister
    /\ ServeRun(PluginReplies)

\* main.go lines 107-114: the deferred StopAll, called once, here with plugins
\* that answer the Stop RPC and are killed when the wait times out.
HostStops ==
    /\ pc = "returned"
    /\ \/ op.prev # "StopAll" /\ StopAllCall
       \/ StopRPCReturns(TRUE, TRUE)
       \/ SelectTimeout(FALSE)
       \/ KilledDone(TRUE)

NextHost ==
    \/ HostStartSteps
    \/ \E cat \in HostCategories : HostRegister(cat)
    \/ HostServes
    \/ HostStops

SpecHost == Init /\ [][NextHost]_vars

----------------------------------------------------------------------------
\* Vocabulary of the properties below

Returned == pc = "returned"
Calls == 1..Len(log)
\* The registered plugin a call record is about.
Callee(e) == plugins[e.cat][e.k]
Failed(e) == e.err # NoErr

\* The category policy table as the specification states it.
StatedSerial == {"authentication", "authorization", "rate-limiting", "validation",
                 "content"}
StatedParallel == {"observability"}
StatedCanReject == {"authentication", "authorization", "rate-limiting", "validation",
                    "content"}
StatedOrder == <<"observability", "authentication", "authorization", "rate-limiting",
                 "validation", "content">>
StatedIndex(cat) == CHOOSE i \in 1..Len(StatedOrder) : StatedOrder[i] = cat

\* A call answered with a wire response that asks to stop.
Stops(e) == ~Failed(e) /\ e.resp.type = "HTTPResponse" /\ ~e.resp.Continue
\* A call answered with continue=true and a non-null modifiedRequest.
Modifies(e) ==
    /\ ~Failed(e)
    /\ e.resp.type = "HTTPResponse"
    /\ e.resp.Continue
    /\ e.resp.ModifiedRequest # Nil

\* A registered plugin that the Run in progress could still call but has not.
Uncalled(cat, k) ==
    /\ CanHandle(plugins[cat][k], flow)
    /\ \A i \in Calls : ~(log[i].cat = cat /\ log[i].k = k)

----------------------------------------------------------------------------
\* C1: whenever a required plugin invoked by Run returns an error, Run returns an
\* error that wraps both ErrRequiredPluginFailed and the plugin's own error, in
\* serial and in parallel categories, whatever the category's canReject.
C1_RequiredFailureFailsRun ==
    Returned =>
        \A i \in Calls :
            (Failed(log[i]) /\ Callee(log[i]).required) =>
                /\ ret.err # NoErr
                /\ ErrorsIs(ret.err, ErrRequiredPluginFailed)
                /\ ErrorsIs(ret.err, log[i].err)

\* A required observability plugin (parallel, canReject=false) has failed after
\* another observability plugin was called, and Run has returned.
C1_Witness ==
    /\ Returned
    /\ Len(log) = 2
    /\ log[2].cat = "observability"
    /\ Failed(log[2])
    /\ Callee(log[2]).required
    /\ ~Callee(log[1]).required

\* C2: in a REQUEST flow, when a plugin of a serial category answers
\* continue=false, Run returns exactly that response and no error, no further
\* plugin is called, and the host writes that response's headers, status and body
\* to the client (and nothing else).
C2_ShortCircuit ==
    \A i \in Calls :
        (log[i].flow = FlowRequest /\ log[i].cat \in StatedSerial /\ Stops(log[i])) =>
            /\ i = Len(log)
            /\ Returned
            /\ ret = [val |-> log[i].resp, err |-> NoErr]
            /\ (phase = "http" /\ mw.pc = "done") =>
                   /\ mw.client = <<SetHeaders(log[i].resp.Headers),
                                    WriteHeader(log[i].resp.StatusCode),
                                    Write(log[i].resp.Body)>>
                   /\ mw.handled = <<>>

\* Scenario S2: a validation plugin has stopped the REQUEST flow of an exchange, a
\* content plugin that handles requests was never called, the response is written.
C2_Witness ==
    /\ phase = "http"
    /\ mw.pc = "done"
    /\ Len(log) = 1
    /\ log[1].cat = "validation"
    /\ Stops(log[1])
    /\ Len(plugins["content"]) = 1
    /\ Uncalled("content", 1)

\* C3: the calls of one Run are made category by category in the order
\* observability, authentication, authorization, rate-limiting, validation,
\* content, and within a serial category in registration order.
C3_CategoryOrder ==
    \A i \in Calls : \A j \in Calls :
        i < j =>
            /\ log[i].cat \in DOMAIN CategoryPropsTable
            /\ StatedIndex(log[i].cat) <= StatedIndex(log[j].cat)
            /\ (log[i].cat = log[j].cat /\ log[i].cat \in StatedSerial) =>
                   log[i].k < log[j].k

\* A RESPONSE flow has called a validation plugin and then a content plugin.
C3_Witness ==
    /\ Returned
    /\ flow = FlowResponse
    /\ Len(log) = 2
    /\ log[1].cat = "validation"
    /\ log[2].cat = "content"

\* C4: a plugin whose capabilities do not contain a flow is never called by a Run
\* of that flow, in serial and in parallel categories alike.
C4_OnlyCapablePluginsCalled ==
    \A i \in Calls : log[i].flow \in Callee(log[i]).capabilities

\* A REQUEST flow has returned having called the second observability plugin and
\* not the first, which handles responses only.
C4_Witness ==
    /\ Returned
    /\ flow = FlowRequest
    /\ Len(plugins["observability"]) = 2
    /\ plugins["observability"][1].capabilities = {FlowResponse}
    /\ Len(log) = 1
    /\ log[1].cat = "observability"
    /\ log[1].k = 2

C6_HandlerReceivesFinalPayload ==
    \A h \in 1..Len(mw.handled) :
        (mw.requestResult.err = NoErr /\ mw.requestResult.val.type = "HTTPRequest") =>
            mw.handled[h] = mw.requestResult.val

FatalFailure(e) == Failed(e) /\ (Callee(e).required \/ e.cat \in StatedCanReject)
\* A failure of a plugin that is not required, in a category that cannot reject.
BenignFailure(e) == Failed(e) /\ ~Callee(e).required /\ e.cat \notin StatedCanReject
\* A call that ends the Run: a stop in a serial category, or a fatal failure.
Halting(e) == (e.cat \in StatedSerial /\ Stops(e)) \/ FatalFailure(e)

\* The payload Run returns when nothing halts it: its argument, or the latest
\* modifiedRequest returned in the content category.
FinalPayload ==
    LET M == {n \in Calls : log[n].cat = "content" /\ Modifies(log[n])}
    IN  IF M = {} THEN PayloadFor(flow)
        ELSE log[CHOOSE n \in M : \A o \in M : o <= n].resp.ModifiedRequest

EveryActivePluginCalled(cat) ==
    \A k \in 1..Len(plugins[cat]) :
        CanHandle(plugins[cat][k], flow) =>
            \E j \in Calls : log[j].cat = cat /\ log[j].k = k

\* C7: when a plugin that is not required fails in a category whose canReject is
\* false, the failure is logged and is no part of an error Run returns; the other
\* plugins of the category are still called; and if no other call halts the Run,
\* every active plugin of every category is called and Run returns, without
\* error, the payload it would return had the plugin succeeded without effect.
C7_BenignFailureIsLoggedOnly ==
    Returned =>
        \A i \in Calls :
            BenignFailure(log[i]) =>
                /\ <<log[i].cat, log[i].k>> \in logged
                /\ ~ErrorsIs(ret.err, log[i].err)
                /\ EveryActivePluginCalled(log[i].cat)
                /\ (\A j \in Calls : ~Halting(log[j])) =>
                       /\ ret = [val |-> FinalPayload, err |-> NoErr]
                       /\ \A n \in 1..Len(StatedOrder) :
                              EveryActivePluginCalled(StatedOrder[n])

\* Scenario S5: an observability plugin that is not required failed, a validation
\* plugin was called after it, and Run returned without error.
C7_Witness ==
    /\ Returned
    /\ ret.err = NoErr
    /\ Len(log) = 2
    /\ log[1].cat = "observability"
    /\ BenignFailure(log[1])
    /\ log[2].cat = "validation"

\* C8: when a plugin that is not required fails in a serial category whose
\* canReject is true, Run returns that very error, not wrapped in
\* ErrRequiredPluginFailed, with a nil payload, and calls no further plugin.
C8_RejectingFailureFailsRun ==
    \A i \in Calls :
        (/\ Failed(log[i])
         /\ ~Callee(log[i]).required
         /\ log[i].cat \in StatedSerial \cap StatedCanReject) =>
            /\ i = Len(log)
            /\ Returned
            /\ ret = [val |-> Nil, err |-> log[i].err]
            /\ ~ErrorsIs(ret.err, ErrRequiredPluginFailed)

\* A validation plugin that is not required failed, and a content plugin able to
\* handle the flow was left uncalled.
C8_Witness ==
    /\ Returned
    /\ Len(log) = 1
    /\ log[1].cat = "validation"
    /\ Failed(log[1])
    /\ ~Callee(log[1]).required
    /\ Len(plugins["content"]) = 1
    /\ Uncalled("content", 1)

\* C9: once Run is past a parallel category, every active plugin of it was called
\* exactly once (and no other), each with the payload Run was given (the payload
\* current when the category started, the category being first); Run failed in
\* that category exactly when one of these calls failed fatally, and then the
\* error returned joins exactly the errors the policy makes of those failures.
C9_ParallelCategory ==
    pc \in {"serial", "returned"} =>
        \A cat \in StatedParallel :
            LET C == {i \in Calls : log[i].cat = cat}
                F == {i \in C : FatalFailure(log[i])}
                PolicyErr(e) == IF Callee(e).required
                                THEN Wrap(<<ErrRequiredPluginFailed, e.err>>)
                                ELSE e.err
            IN  /\ \A k \in 1..Len(plugins[cat]) :
                       Cardinality({i \in C : log[i].k = k}) =
                           IF flow \in plugins[cat][k].capabilities THEN 1 ELSE 0
                /\ \A i \in C : log[i].input = PayloadFor(flow)
                /\ IF F # {}
                   THEN /\ Returned
                        /\ C = Calls
                        /\ ret.val = Nil
                        /\ ret.err.kind = "join"
                        /\ Len(ret.err.errs) = Cardinality(F)
                        /\ {ret.err.errs[n] : n \in 1..Len(ret.err.errs)} =
                               {PolicyErr(log[i]) : i \in F}
                   ELSE (Returned /\ ret.err # NoErr) =>
                            /\ ret.err.kind # "join"
                            /\ \E i \in Calls \ C : FatalFailure(log[i])

\* Two required observability plugins both failed; Run returned the join of both.
C9_Witness ==
    /\ Returned
    /\ Len(log) = 2
    /\ \A i \in Calls : log[i].cat = "observability" /\ FatalFailure(log[i])
    /\ ret.err.kind = "join"
    /\ Len(ret.err.errs) = 2

\* C10: Run called with a flow that is neither REQUEST nor RESPONSE returns an
\* error, for every set of registered plugins.
C10_UnknownFlowIsAnError ==
    (Returned /\ flow \notin {FlowRequest, FlowResponse}) => ret.err # NoErr

----------------------------------------------------------------------------
\* RunResponse and the middleware

Rewrites(e) ==
    /\ ~Failed(e)
    /\ e.input.type = "HTTPResponse"
    /\ e.resp.type = "HTTPResponse"
    /\ e.resp.Continue
    /\ <<e.resp.StatusCode, e.resp.Headers, e.resp.Body>> #
           <<e.input.StatusCode, e.input.Headers, e.input.Body>>

\* C13: in a RESPONSE flow, when a content plugin answers continue=true with a
\* status, headers or body that differ from its input, the next plugin called
\* receives that changed response, and if it was the last call of a Run that
\* returned without error, RunResponse returns that changed response.
C13_ResponseRewritePropagates ==
    \A i \in Calls :
        (log[i].flow = FlowResponse /\ log[i].cat = "content" /\ Rewrites(log[i])) =>
            /\ (i + 1 \in Calls) => log[i + 1].input = log[i].resp
            /\ (i = Len(log) /\ Returned /\ ret.err = NoErr) =>
                   RunResponse(HandlerResponse, ret).val = log[i].resp

\* C14: in a RESPONSE flow every plugin is given a wire response, also after a
\* plugin returned a non-null modifiedRequest; no call fails for the type of its
\* payload; and after a Run that no call halts (as none would, had the field
\* been null) RunResponse returns, without error, the response it was given.
C14_ModifiedRequestIgnoredInResponseFlow ==
    /\ \A i \in Calls :
           log[i].flow = FlowResponse =>
               /\ log[i].input.type = "HTTPResponse"
               /\ log[i].err # ErrInvalidResponseType
    /\ (Returned /\ flow = FlowResponse /\ \A i \in Calls : ~Halting(log[i])) =>
           RunResponse(HandlerResponse, ret) = [val |-> HandlerResponse, err |-> NoErr]

\* The REQUEST flow of the exchange has run and the middleware has acted on it.
RequestFlowHandled == phase = "http" /\ mw.pc \in {"response", "done"} /\ pc # "idle"

\* C15: after the REQUEST flow of an exchange exactly one of three things holds.
\* Run failed: the client is sent 503, the handler is not invoked and no RESPONSE
\* flow runs. Run returned a response with continue=false: the client is sent
\* that response's headers, status and body, the handler is not invoked and no
\* RESPONSE flow runs. Otherwise the handler was invoked exactly once, and the
\* RESPONSE flow runs only after it. Before the REQUEST flow has returned, neither
\* the handler nor the client has seen anything.
C15_ThreeOutcomes ==
    /\ (phase = "http" /\ mw.pc = "request") =>
           (mw.handled = <<>> /\ mw.client = <<>> /\ flow = FlowRequest)
    /\ (phase = "http" /\ flow = FlowResponse) => Len(mw.handled) = 1
    /\ RequestFlowHandled =>
           LET q == mw.requestResult
           IN  CASE q.err # NoErr ->
                       /\ mw.pc = "done"
                       /\ mw.client = <<WriteHeader(503), Write("Service unavailable")>>
                       /\ mw.handled = <<>>
                       /\ flow = FlowRequest
                 [] q.err = NoErr /\ q.val.type = "HTTPResponse" /\ ~q.val.Continue ->
                       /\ mw.pc = "done"
                       /\ mw.client = <<SetHeaders(q.val.Headers),
                                        WriteHeader(q.val.StatusCode),
                                        Write(q.val.Body)>>
                       /\ mw.handled = <<>>
                       /\ flow = FlowRequest
                 [] OTHER ->
                       /\ Len(mw.handled) = 1
                       /\ flow = FlowResponse

\* An exchange whose REQUEST flow failed on a required observability plugin while
\* a content plugin able to handle requests was registered: 503, no handler.
C15_Witness ==
    /\ RequestFlowHandled
    /\ mw.pc = "done"
    /\ mw.requestResult.err # NoErr
    /\ ErrorsIs(mw.requestResult.err, ErrRequiredPluginFailed)
    /\ Len(plugins["content"]) = 1
    /\ CanHandle(plugins["content"][1], FlowRequest)
    /\ mw.handled = <<>>

\* The status the client receives: that of the first WriteHeader, or 200 when a
\* Write comes first (later WriteHeader calls are superfluous to net/http).
ClientStatus(writes) ==
    LET S == {i \in 1..Len(writes) : writes[i][1] \in {"WriteHeader", "Write"}}
        first == CHOOSE i \in S : \A j \in S : i <= j
    IN  IF S = {} THEN 0
        ELSE IF writes[first][1] = "WriteHeader" THEN writes[first][2] ELSE 200

\* C16: when the RESPONSE flow of an exchange fails, the status the client
\* receives is 503 and the handler's status and body are not among what the
\* client receives.
C16_ResponseFlowErrorIs503 ==
    (phase = "http" /\ mw.pc = "done" /\ flow = FlowResponse /\ ret.err # NoErr) =>
        /\ ClientStatus(mw.client) = 503
        /\ \A i \in 1..Len(mw.client) : mw.client[i] # Write(HandlerBody)

----------------------------------------------------------------------------
\* Properties over other category tables

\* The category is configured PARALLEL with canModify=true.
Misconfigured(cat) ==
    /\ PropsForCategory(cat).Mode = ExecParallel
    /\ PropsForCategory(cat).CanModify

\* A call that ends the Run under the table in force.
HaltsRun(e) ==
    \/ PropsForCategory(e.cat).Mode = ExecSerial /\ Stops(e)
    \/ Failed(e) /\ (Callee(e).required \/ PropsForCategory(e.cat).CanReject)

\* The Run gets to the category: it has a plugin able to handle the flow, and no
\* call of the Run has ended it.
RunReaches(cat) ==
    /\ \E k \in 1..Len(plugins[cat]) : CanHandle(plugins[cat][k], flow)
    /\ \A i \in Calls : ~HaltsRun(log[i])

\* C11 as stated: if a category is PARALLEL with canModify=true, Run returns a
\* configuration error and calls none of that category's plugins.
C11_ParallelModifyRejectsFlow ==
    Returned =>
        \A n \in 1..Len(OrderedCategories) :
            Misconfigured(OrderedCategories[n]) =>
                /\ ret = [val |-> Nil, err |-> ErrParallelModify(OrderedCategories[n])]
                /\ \A i \in Calls : log[i].cat # OrderedCategories[n]

\* C11 amended: no plugin of a category that is PARALLEL with canModify=true is
\* ever called; when the Run gets to such a category with a plugin able to handle
\* the flow it returns the configuration error with a nil payload, having called
\* no plugin of a later category; and it returns that error in no other case.
C11_ParallelModifyRejectedWhenReached ==
    \A n \in 1..Len(OrderedCategories) :
        LET cat == OrderedCategories[n]
        IN  Misconfigured(cat) =>
                /\ \A i \in Calls : log[i].cat # cat
                /\ Returned =>
                       IF RunReaches(cat)
                       THEN /\ ret = [val |-> Nil, err |-> ErrParallelModify(cat)]
                            /\ \A i \in Calls :
                                   \E m \in 1..(n - 1) : log[i].cat = OrderedCategories[m]
                       ELSE ret.err # ErrParallelModify(cat)

\* The validation category is PARALLEL with canModify=true and holds two plugins
\* able to handle requests; an authentication plugin was called and passed; the
\* REQUEST flow then failed with the configuration error.
C11_Witness ==
    /\ Returned
    /\ flow = FlowRequest
    /\ Misconfigured("validation")
    /\ Len(plugins["validation"]) = 2
    /\ \A k \in 1..2 : CanHandle(plugins["validation"][k], FlowRequest)
    /\ Len(log) = 1
    /\ log[1].cat = "authentication"
    /\ ret.err = ErrParallelModify("validation")

----------------------------------------------------------------------------
\* The manager

\* What the host has done to each child process so far.
HostEvents == [pid \in DOMAIN procs |-> procs[pid].events]
Events(pid) == {procs[pid].events[i] : i \in 1..Len(procs[pid].events)}
StopAllReturned == op.name = "idle" /\ op.prev = "StopAll"

\* C17: StopAll returns no error and leaves Plugins() empty, each time; and a
\* StopAll call that follows another with no Start in between returns at once,
\* the host doing nothing to any child process (no Stop RPC, no wait, no kill)
\* from that call on.
C17_StopAllIdempotent ==
    /\ [](StopAllReturned => (op.result.err = NoErr /\ Plugins = {}))
    /\ [](op.stopAlls >= 2 => StopAllReturned)
    /\ [][op'.stopAlls >= 2 => (HostEvents' = HostEvents /\ managed' = managed)]_vars

\* Two plugins were started and a first StopAll stopped both, killing one; a
\* second StopAll has returned.
C17_Witness ==
    /\ StopAllReturned
    /\ op.stopAlls = 2
    /\ Len(procs) = 2
    /\ \A pid \in 1..2 : "Wait" \in Events(pid)
    /\ \E pid \in 1..2 : "Kill" \in Events(pid)

\* C18: StopAll returns an error exactly when the force-kill of some plugin
\* process failed during it (failures of the Stop RPC, of closing the connection
\* and of removing the socket file do not make it return one).
C18_StopAllReturnsKillFailures ==
    StopAllReturned => (op.result.err # NoErr <=> op.result.failed # {})

\* A Start call that has returned an error after it spawned a child.
StartFailedAfterSpawn ==
    /\ op.name = "idle"
    /\ op.result.of = "Start"
    /\ op.result.err # NoErr
    /\ op.result.proc # 0

\* C19: when Start returns an error after it spawned the child, the host has
\* killed the child, which no longer runs; a connection opened to it is closed;
\* the manager's map has no entry for it; and no step of a Start call other than
\* its successful return changes the map.
C19_FailedStartCleansUp ==
    /\ [](StartFailedAfterSpawn =>
            /\ "Kill" \in Events(op.result.proc)
            /\ procs[op.result.proc].state # "running"
            /\ procs[op.result.proc].conn # "open"
            /\ \A n \in DOMAIN managed : managed[n].proc # op.result.proc)
    /\ [][(op.name = "Start" /\ ~(op'.name = "idle" /\ op'.result.err = NoErr)) =>
              managed' = managed]_vars

\* The second Start failed in the construction of the adapter, after the
\* connection was opened, while the plugin of the first Start is in the map.
C19_Witness ==
    /\ StartFailedAfterSpawn
    /\ op.result.err = ErrCreatingAdapter
    /\ op.result.proc = 2
    /\ procs[2].conn = "closed"
    /\ procs[2].state = "killed"
    /\ \E n \in DOMAIN managed : managed[n].proc = 1

\* C20: every Start call returns, whatever the plugin does or fails to do.
C20_StartTerminates == (op.name = "Start") ~> (op.name = "idle")

----------------------------------------------------------------------------
\* A process whose GetCapabilities answer names no known flow.
DeclaresNoFlow(p) == p.declared # NoAnswer /\ NormaliseFlows(p.declared) = {}

\* C21: a plugin whose declared capabilities normalise to the empty set (no flows,
\* or only unknown flow values) is rejected at handshake: the step that receives
\* the answer makes Start return an error and no instance, and from then on the
\* process is in no entry of the manager's map, so behind no instance of
\* Plugins(), and it has been sent the kill.
C21_EmptyCapabilitiesRejected ==
    /\ [](\A pid \in DOMAIN procs :
             DeclaresNoFlow(procs[pid]) =>
                 /\ \A n \in DOMAIN managed : managed[n].proc # pid
                 /\ procs[pid].state # "running"
                 /\ "Kill" \in Events(pid))
    /\ [][\A pid \in DOMAIN procs :
             ~DeclaresNoFlow(procs[pid]) /\ DeclaresNoFlow(procs'[pid]) =>
                 /\ op'.name = "idle"
                 /\ op'.result.of = "Start"
                 /\ op'.result.proc = pid
                 /\ op'.result.err = ErrCreatingAdapter
                 /\ op'.result.instance = Nil]_vars

\* Start has just rejected a plugin that declared only FLOW_UNSPECIFIED, with
\* another plugin registered.
C21_Witness ==
    /\ op.name = "idle"
    /\ op.result.of = "Start"
    /\ op.result.err = ErrCreatingAdapter
    /\ op.result.proc \in DOMAIN procs
    /\ procs[op.result.proc].declared = {"FLOW_UNSPECIFIED"}
    /\ DOMAIN managed # {}

----------------------------------------------------------------------------
\* C22: for every instance a successful Start returned, the instance's id, the
\* key it is registered under and the name in the adapter's cached Metadata() are
\* the same value, whatever the plugin answers to GetMetadata.
C22_IdKeyAndMetadataAgree ==
    /\ \A n \in DOMAIN managed :
           /\ managed[n].instance.id = n
           /\ managed[n].instance.metadata = n
    /\ (op.name = "idle" /\ op.result.of = "Start" /\ op.result.err = NoErr) =>
           /\ op.result.instance.id = op.result.instance.metadata
           /\ op.result.instance.id \in DOMAIN managed

----------------------------------------------------------------------------
\* The number of times rpc occurs among the RPCs the adapter issued.
Issued(rpc) == Cardinality({i \in DOMAIN adapter.rpcs : adapter.rpcs[i] = rpc})

\* C23: a constructed adapter has issued GetMetadata and GetCapabilities exactly
\* once each, as its first two RPCs, whatever operations were called on it since;
\* Metadata() and Capabilities() issue no RPC and return the fields, and the fields
\* never change once the adapter is constructed, although the plugin would answer
\* differently by now.
C23_FetchedOnceAndCached ==
    /\ [](adapter.state = "ready" =>
             /\ Issued("GetMetadata") = 1 /\ adapter.rpcs[1] = "GetMetadata"
             /\ Issued("GetCapabilities") = 1 /\ adapter.rpcs[2] = "GetCapabilities"
             /\ \A i \in DOMAIN adapter.returned :
                    LET r == adapter.returned[i]
                    IN  /\ r.of = "Metadata" => r.name = adapter.metadata
                        /\ r.of = "Capabilities" => r.flows = adapter.capabilities)
    /\ [][adapter.state = "ready" =>
             /\ adapter'.metadata = adapter.metadata
             /\ adapter'.capabilities = adapter.capabilities
             /\ Len(adapter'.returned) > Len(adapter.returned) =>
                    adapter'.rpcs = adapter.rpcs]_vars

\* Metadata() and Capabilities() have both been called, after another RPC, on an
\* adapter whose plugin would by now answer both fetches differently.
C23_Witness ==
    /\ adapter.state = "ready"
    /\ Len(adapter.rpcs) = 3
    /\ Len(adapter.returned) = 2
    /\ adapter.returned[1].of # adapter.returned[2].of
    /\ adapter.remote.name # adapter.metadata
    /\ NormaliseFlows(adapter.remote.flows) # adapter.capabilities

----------------------------------------------------------------------------
\* A step of Run that reads the registry: it enters the category loop or moves on
\* in it.
RunReadsRegistry == ci' # ci \/ (pc = "idle" /\ pc' # "idle")

\* C24: Run reads the per-category plugin lists under the read lock of the
\* registry, so never while a Register call holds the lock for its write: no step
\* of Run reads the registry between Register's Lock and its Unlock.
C24_RunReadsUnderReadLock ==
    [][RunReadsRegistry => ~mu.writer]_vars

----------------------------------------------------------------------------
\* Start returned the instance of process pid and StopAll's Stop RPC to it is not
\* over: it is in the map, or in the snapshot the StopAll in progress took of it.
StartSucceeded(pid) ==
    \/ \E n \in DOMAIN managed : managed[n].proc = pid
    \/ op.name = "StopAll" /\ (pid \in op.todo \/ (op.proc = pid /\ op.pc = "Stop"))

\* The number of kills the host has sent to process pid.
KillsSent(pid) ==
    Cardinality({i \in DOMAIN procs[pid].events : procs[pid].events[i] = "Kill"})
        + (IF procs[pid].ctxKilled THEN 1 ELSE 0)

\* C25: once Start has returned successfully the process stays live until StopAll
\* handles it: the host sends no kill to a process whose Start succeeded before
\* StopAll's Stop RPC to it is over, also after the context passed to Start is
\* cancelled.
C25_LiveUntilStopAll ==
    [][\A pid \in DOMAIN procs :
           KillsSent(pid)' > KillsSent(pid) => ~StartSucceeded(pid)]_vars

----------------------------------------------------------------------------
\* The positions in the events of process pid where the host did what.
Positions(pid, what) ==
    {i \in DOMAIN procs[pid].events : procs[pid].events[i] \in what}

\* C26: during StopAll the host sends SIGTERM to the plugin process after the Stop
\* RPC, and SIGKILL only after that: once stopPlugin waits for the process, a
\* SIGTERM has followed the Stop RPC, and every kill comes after the SIGTERM.
C26_SigtermBeforeSigkill ==
    \A pid \in DOMAIN procs :
        "Wait" \in Events(pid) =>
            \E t \in Positions(pid, {"SIGTERM"}) :
                /\ \E r \in Positions(pid, {"Stop", "StopFailed"}) : r < t
                /\ \A k \in Positions(pid, {"Kill", "KillFailed"}) :
                       (\E r \in Positions(pid, {"Stop", "StopFailed"}) : r < k) => t < k

----------------------------------------------------------------------------
\* The calls of fn among the calls made.
CallsOf(fn) == {i \in DOMAIN pure : pure[i].fn = fn}

\* C27: the transport address generated for a Start call is unique: no two calls
\* of generateAddress on a host, in particular two for the same binary, return
\* the same address.
C27_AddressesUnique ==
    \A i, j \in CallsOf("generateAddress") :
        i # j => pure[i].result.address # pure[j].result.address

----------------------------------------------------------------------------
\* The row the specification states for category c.
StatedRow(c) ==
    CASE c = "observability" -> [Mode |-> ExecParallel, CanReject |-> FALSE, CanModify |-> FALSE]
      [] c = "authentication" -> [Mode |-> ExecSerial, CanReject |-> TRUE, CanModify |-> FALSE]
      [] c = "authorization" -> [Mode |-> ExecSerial, CanReject |-> TRUE, CanModify |-> FALSE]
      [] c = "rate-limiting" -> [Mode |-> ExecSerial, CanReject |-> TRUE, CanModify |-> FALSE]
      [] c = "validation" -> [Mode |-> ExecSerial, CanReject |-> TRUE, CanModify |-> FALSE]
      [] c = "content" -> [Mode |-> ExecSerial, CanReject |-> TRUE, CanModify |-> TRUE]
      [] OTHER -> [Mode |-> ExecSerial, CanReject |-> FALSE, CanModify |-> FALSE]

\* C30: PropsForCategory returns exactly the fixed row for each of the six known
\* categories (observability PARALLEL, no reject, no modify; authentication,
\* authorization, rate-limiting and validation SERIAL, reject, no modify; content
\* SERIAL, reject, modify) and (SERIAL, no reject, no modify) for every other
\* category value.
C30_PropsForCategoryTable ==
    \A i \in CallsOf("PropsForCategory") : pure[i].result = StatedRow(pure[i].c)

\* PropsForCategory has been applied to a known category and to an unknown one.
C30_Witness ==
    \E i, j \in CallsOf("PropsForCategory") :
        /\ pure[i].c = CategoryContent /\ pure[i].result.CanModify
        /\ pure[j].c \notin DOMAIN categoryProps /\ ~pure[j].result.CanReject

----------------------------------------------------------------------------
\* C29: after StopAll returns, the socket file of every plugin it stopped is gone,
\* on every path through the stop sequence (graceful exit, force-kill, failed
\* force-kill), unless os.Remove itself failed; a file that was absent already
\* is no error.
C29_SocketsRemoved ==
    StopAllReturned =>
        \A pid \in DOMAIN procs :
            ("Wait" \in Events(pid) /\ "RemoveFailed" \notin Events(pid)) =>
                procs[pid].socket = "absent"

----------------------------------------------------------------------------
----------------------------------------------------------------------------
\* C31: Run does not proceed past a PARALLEL category until every plugin call
\* dispatched in it has returned: while a call of the category is in flight, Run
\* neither returns nor leaves the category, and the only plugins invoked are the
\* category's own, also when an earlier call has put a fatal error in the channel.
C31_ParallelWaitsForAll ==
    /\ [](Returned => pending = {})
    /\ [][(pc = "parallel" /\ pending # {}) =>
             /\ pc' = "parallel"
             /\ ci' = ci
             /\ \A n \in (Len(log) + 1)..Len(log') :
                    log'[n].cat = OrderedCategories[ci]]_vars

\* Run has returned the error of a parallel category in which a call was made
\* after another call of the category had failed fatally.
C31_Witness ==
    /\ Returned
    /\ ret.err # NoErr
    /\ \E i, j \in Calls :
           /\ i < j
           /\ log[i].cat = log[j].cat
           /\ PropsForCategory(log[i].cat).Mode = ExecParallel
           /\ FatalFailure(log[i])

----------------------------------------------------------------------------
\* StopAll has attempted the Stop RPC to process pid; stopPlugin is over for it.
StopAttempted(pid) == Positions(pid, {"Stop", "StopFailed"}) # {}
StopPluginOver(pid) == StopAttempted(pid) /\ ~(op.name = "StopAll" /\ op.proc = pid)

\* The steps of stopPlugin on process pid happen once each and in the order Stop
\* RPC attempt, connection close, wait for exit, force-kill, socket removal, and
\* none is skipped whether or not the Stop RPC succeeded.
StopOrder(pid) ==
    LET stop == Positions(pid, {"Stop", "StopFailed"})
        close == Positions(pid, {"Close", "CloseFailed"})
        wait == Positions(pid, {"Wait"})
        kill == Positions(pid, {"Kill", "KillFailed"})
        remove == Positions(pid, {"Remove", "RemoveFailed"})
        Before(A, B) == \A a \in A, b \in B : a < b
    IN  /\ \A S \in {stop, close, wait, kill, remove} : Cardinality(S) <= 1
        /\ Before(stop, close) /\ Before(close, wait) /\ Before(wait, kill)
        /\ Before(wait, remove) /\ Before(kill, remove)
        /\ close # {} /\ wait # {}
        /\ StopPluginOver(pid) => (kill \cup remove) # {}

\* A step in which StopAll sends a kill to process pid.
ForceKills(pid) ==
    /\ StopAttempted(pid)'
    /\ Cardinality(Positions(pid, {"Kill", "KillFailed"}))' >
           Cardinality(Positions(pid, {"Kill", "KillFailed"}))

\* C32 as stated: the steps of stopPlugin in their order, none skipped after a
\* failed Stop RPC, and the force-kill only on a process that has not exited by
\* the end of the exit wait.
C32_StopSequenceKillsOnlyLive ==
    /\ [](\A pid \in DOMAIN procs : StopAttempted(pid) => StopOrder(pid))
    /\ [][\A pid \in DOMAIN procs :
             ForceKills(pid) => procs[pid].state = "running"]_vars

\* C32: the steps of stopPlugin in their order, none skipped after a failed Stop
\* RPC, and the force-kill only when the 2 s timer ends the exit wait, which it
\* can do although the process has exited by then.
C32_StopSequence ==
    /\ [](\A pid \in DOMAIN procs : StopAttempted(pid) => StopOrder(pid))
    /\ [][\A pid \in DOMAIN procs :
             ForceKills(pid) =>
                 /\ op.name = "StopAll" /\ op.proc = pid /\ op.pc = "select"
                 /\ "Wait" \in Events(pid)]_vars

\* StopAll has returned after a plugin whose Stop RPC failed went through close,
\* wait, force-kill and socket removal.
C32_Witness ==
    /\ StopAllReturned
    /\ \E pid \in DOMAIN procs :
           \E c \in {"Close", "CloseFailed"} :
               procs[pid].events = <<"StopFailed", c, "Wait", "Kill", "Remove">>

----------------------------------------------------------------------------
\* The calls of kind ("WriteHeader", "Write") among the writes on the client's
\* response writer.
ClientWrites(kind) == {i \in DOMAIN mw.client : mw.client[i][1] = kind}

\* C33: the handler's status, headers and body are only captured before the
\* RESPONSE flow runs: nothing is on the client's response writer while that flow
\* has not finished, and once the exchange is over the client has been written
\* one status and one body.
C33_HandlerOutputOnlyCaptured ==
    /\ (phase = "http" /\ mw.pc = "response") => mw.client = <<>>
    /\ (phase = "http" /\ mw.pc = "done" /\ mw.handled # <<>>) =>
           /\ Cardinality(ClientWrites("WriteHeader")) <= 1
           /\ Cardinality(ClientWrites("Write")) <= 1

----------------------------------------------------------------------------
\* The calls made in a category the specification states as parallel.
ParallelCalls == {i \in Calls : log[i].cat \in StatedParallel}

\* C34: a response returned by a plugin of a PARALLEL category never influences
\* Run. The step that receives it neither returns from Run nor changes the payload
\* or the errors collected; every later call of the Run gets the payload the
\* parallel plugin got unless a content plugin has replaced it since; and a Run in
\* which no serial plugin stopped and no plugin failed fatally returns what it
\* would have returned had the parallel plugins answered continue=true with no
\* modification.
C34_ParallelResponseIgnored ==
    /\ [][(Len(log') > Len(log) /\ Len(log') \in ParallelCalls'
              /\ ~Failed(log'[Len(log')])) =>
             /\ pc' = pc /\ req' = req /\ ret' = ret /\ errCh' = errCh]_vars
    /\ [](\A i \in ParallelCalls, j \in Calls :
             (i < j /\ \A n \in i..(j - 1) : ~(log[n].cat = "content" /\ Modifies(log[n])))
                 => log[j].input = log[i].input)
    /\ []((Returned /\ \A i \in Calls : ~Halting(log[i])) =>
             ret = [val |-> FinalPayload, err |-> NoErr])

\* Run has returned its payload although one observability plugin answered
\* continue=false and another a modifiedRequest.
C34_Witness ==
    /\ Returned
    /\ ret.err = NoErr
    /\ \E i, j \in ParallelCalls : Stops(log[i]) /\ Modifies(log[j])

----------------------------------------------------------------------------
\* A call in a serial category that may not modify, answered with continue=true
\* and a non-null modifiedRequest.
ModifiesInVain(e) ==
    /\ PropsForCategory(e.cat).Mode = ExecSerial
    /\ ~PropsForCategory(e.cat).CanModify
    /\ Modifies(e)

\* A call whose modifiedRequest replaces the payload.
ReplacesPayload(e) == PropsForCategory(e.cat).CanModify /\ Modifies(e)

\* C35 as stated: in a serial category whose canModify is false, a non-null
\* modifiedRequest returned with continue=true leaves the payload unchanged, and
\* every later plugin in that Run receives the payload the returning plugin
\* received.
C35_EveryLaterPluginSamePayload ==
    \A i, j \in Calls :
        (i < j /\ ModifiesInVain(log[i])) => log[j].input = log[i].input

\* C35: in a serial category whose canModify is false, a non-null modifiedRequest
\* returned with continue=true leaves the payload unchanged: the next plugin, and
\* every later plugin up to the first one that follows a replacement of the
\* payload by a category that may modify, receives the payload the returning
\* plugin received.
C35_UnmodifiablePayloadKept ==
    \A i, j \in Calls :
        (/\ i < j
         /\ ModifiesInVain(log[i])
         /\ \A n \in (i + 1)..(j - 1) : ~ReplacesPayload(log[n])) =>
            /\ log[j].input = log[i].input
            /\ log[j].input # log[i].resp.ModifiedRequest

\* An authentication plugin answered with a modifiedRequest and the content plugin
\* called after it received the payload the authentication plugin had received.
C35_Witness ==
    /\ Len(log) >= 2
    /\ log[1].cat = "authentication"
    /\ ModifiesInVain(log[1])
    /\ log[2].cat = "content"
    /\ log[2].input = log[1].input

----------------------------------------------------------------------------
\* C36: a plugin registered under a category that is not one of the six ordered
\* categories is never invoked by any Run, for either flow, although Register
\* accepted it: every call of a Run is to a plugin of one of the six categories.
C36_UnorderedCategoryNeverRuns ==
    \A i \in Calls :
        log[i].cat \in {"observability", "authentication", "authorization",
                        "rate-limiting", "validation", "content"}

\* A Run has returned after calling a content plugin, while a plugin that handles
\* the flow sits registered under a category outside the six.
C36_Witness ==
    /\ Returned
    /\ ret.err = NoErr
    /\ flow \in {FlowRequest, FlowResponse}
    /\ \E i \in Calls : log[i].cat = "content"
    /\ Len(plugins[CategoryOther]) = 1
    /\ Uncalled(CategoryOther, 1)

----------------------------------------------------------------------------
\* The child processes the manager's map holds.
Tracked == {managed[n].proc : n \in DOMAIN managed}

\* C37: after any sequence of Start and StopAll calls the manager tracks every
\* live child process it created, also when two started plugins report the same
\* metadata name: between operations every running child is in the map, so
\* Plugins() has its instance and the next StopAll stops it, and after StopAll
\* has returned no child is still running.
C37_EveryLiveChildTracked ==
    op.name = "idle" =>
        /\ \A pid \in DOMAIN procs : procs[pid].state = "running" => pid \in Tracked
        /\ StopAllReturned => \A pid \in DOMAIN procs : procs[pid].state # "running"

----------------------------------------------------------------------------
\* The StopAll calls whose snapshot holds process pid.
SnapshotsOf(pid) ==
    {t \in DOMAIN threads.of :
        threads.of[t].name \in {"StopAll", "returned"} /\ pid \in threads.of[t].snapshot}

\* The number of Stop RPCs process pid has been sent.
StopsSent(pid) == Cardinality(Positions(pid, {"Stop", "StopFailed"}))

\* C38: under any interleaving of concurrent Start and StopAll calls, each
\* plugin a Start has registered is either in the manager's map or in the
\* snapshot of exactly one StopAll call, never in both or in neither; so no
\* plugin is stopped by two StopAll calls, and a plugin registered after a
\* snapshot was taken is in the map for a later StopAll.
C38_InMapOrInOneSnapshot ==
    \A pid \in threads.registered :
        /\ Cardinality(SnapshotsOf(pid)) + (IF pid \in Tracked THEN 1 ELSE 0) = 1
        /\ StopsSent(pid) <= 1

----------------------------------------------------------------------------
\* The payload a Run with log l and flow f holds before its i-th call, from its
\* own input and its own plugins' replies alone: the modifiedRequest of its last
\* modifying content call so far, or else its input.
OwnPayload(l, f, i) ==
    LET M == {n \in 1..(i - 1) : n <= Len(l) /\ l[n].cat = "content" /\ Modifies(l[n])}
    IN  IF M = {} THEN PayloadFor(f)
        ELSE l[CHOOSE n \in M : \A o \in M : o <= n].resp.ModifiedRequest

\* The serial calls of log l that short-circuit.
OwnStops(l) == {n \in 1..Len(l) : l[n].cat \notin StatedParallel /\ Stops(l[n])}

\* A Run with these locals saw, and returned, what its own input and its own
\* plugins' replies determine.
OnItsOwn(r) ==
    /\ \A i \in 1..Len(r.log) : r.log[i].input = OwnPayload(r.log, r.flow, i)
    /\ r.pc = "returned" =>
           IF OwnStops(r.log) # {}
           THEN /\ OwnStops(r.log) = {Len(r.log)}
                /\ r.ret = [val |-> r.log[Len(r.log)].resp, err |-> NoErr]
           ELSE IF r.ret.err # NoErr
           THEN r.ret.val = Nil /\ \E i \in 1..Len(r.log) : Failed(r.log[i])
           ELSE r.ret.val = OwnPayload(r.log, r.flow, Len(r.log) + 1)

\* C39: concurrent Runs on one Pipeline do not interfere: the payload every
\* plugin of a Run receives and the Run's result follow from that Run's own
\* input and its own plugins' replies, whatever the other Run's plugins answer
\* (modifiedRequest, short-circuit) in between.
C39_RunsDoNotInterfere == OnItsOwn(Locals) /\ OnItsOwn(suspended)

\* Both Runs, of the same flow, have returned, with different results: one with
\* the modifiedRequest of its content plugin, the other with the short-circuit
\* response of its content plugin, which was called with the unmodified input.
C39_Witness ==
    /\ pc = "returned" /\ suspended.pc = "returned"
    /\ flow = suspended.flow
    /\ \E i \in 1..Len(suspended.log) :
           /\ suspended.log[i].cat = "content" /\ Modifies(suspended.log[i])
           /\ suspended.ret.val = suspended.log[i].resp.ModifiedRequest
    /\ log # <<>>
    /\ log[Len(log)].cat = "content" /\ Stops(log[Len(log)])
    /\ log[Len(log)].input = PayloadFor(flow)
    /\ ret.val = log[Len(log)].resp

----------------------------------------------------------------------------
\* The instances the manager has built: those in its map, the one its last Start
\* returned, and those registered with the pipeline.
HostInstances ==
    Plugins
    \cup (IF op.result.instance = Nil THEN {} ELSE {op.result.instance})
    \cup {plugins[cat][k] : <<cat, k>> \in
              {ck \in Categories \X (1..MaxPlugins) : ck[2] <= Len(plugins[ck[1]])}}

\* C40: every PluginInstance created by Manager.Start has required=false and
\* an empty config, and no operation of the manager or the pipeline changes
\* them; so in a host whose pipeline holds only manager-started instances Run
\* never returns an error wrapping RequiredPluginFailed.
C40_StartedInstancesOptional ==
    /\ \A instance \in HostInstances :
           ~instance.required /\ instance.config = PluginConfigZero
    /\ Returned => ~ErrorsIs(ret.err, ErrRequiredPluginFailed)

\* Run has returned the error of a failed manager-started plugin, and StopAll has
\* then stopped the plugins.
C40_Witness ==
    /\ Returned
    /\ ret.err # NoErr
    /\ \E i \in Calls : Failed(log[i]) /\ Callee(log[i]).id \in PluginNames
    /\ StopAllReturned
    /\ \E pid \in DOMAIN procs : "Stop" \in Events(pid)

====
